---- MODULE Spec2Model ----
(***************************************************************************)
(* A model of the document-intake-and-payment application dev4568/devpp.   *)
(*                                                                         *)
(* The repository holds several components that are modelled side by side, *)
(* each with a specification of its own:                                   *)
(*                                                                         *)
(*   SpecRoutes     the payment routes of the server (createOrder,         *)
(*                  verifyPayment)                                         *)
(*   SpecWebhook    the webhook route of the server (handleWebhook)        *)
(*   SpecContext    PaymentContext.tsx: initializePayment,                 *)
(*                  processRazorpayPayment, retryPayment, and the React    *)
(*                  closures that call them                                *)
(*   SpecPresigned  the payment page that pays through a client-only       *)
(*                  Razorpay popup and uploads through presigned URLs      *)
(*   SpecDirect     client/pages/Payment.tsx: the payment page that        *)
(*                  uploads through POST /api/uploads/files                *)
(*   SpecPages      either of the two payment pages                        *)
(*   SpecPricing    PricingContext.tsx, the cost popup of the upload page  *)
(*                  and the amounts of the payment pages                   *)
(*   SpecOrder      the pricing context as the payment component that      *)
(*                  initializes the payment drives it                      *)
(*   SpecUploads    the upload route of the server (uploadFiles) under     *)
(*                  concurrent requests                                    *)
(*   SpecStage      client/pages/Upload.tsx: staging, removing and typing  *)
(*                  files, with the IndexedDB store behind the page        *)
(*                                                                         *)
(* Every specification leaves the variables of the other components at     *)
(* their initial values.                                                   *)
(***************************************************************************)
EXTENDS Integers, Sequences, FiniteSets, TLC

\* ------------------------------------------------------------------------
\* Bounds of the model
\* ------------------------------------------------------------------------

\* Longest order id / payment id of a verification request.
MaxIdLen == 2

\* Calls of initializePayment in one session.
MaxInitCalls == 2

\* Calls of processRazorpayPayment (checkout attempts) in one session.
MaxAttempts == 2

\* Files staged in the documents context, and files staged in IndexedDB.
MaxStaged == 2

\* Orders POST /api/payment/create-order issues.
MaxOrders == 2

\* Clicks on the Pay button of a payment page.
MaxClicks == 2

\* Webhook events the gateway delivers and the server accepts.
MaxDeliveries == 2

\* Files in the documents context when a price is calculated.
MaxDocs == 5

\* Most files of the documents context when the payment component is
\* mounted.
MaxFlowDocs == 2

\* Calls of the handlers of the upload page in one session.
MaxStageCalls == 3

\* How many files the user selects or drops at once.
SelectionSizes == {1, 30}

\* Requests POST /api/uploads/files the server is sent.
MaxUploadReqs == 2

\* ------------------------------------------------------------------------
\* Generic helpers
\* ------------------------------------------------------------------------

\* The absent value of JavaScript (null / undefined): Null where a string is
\* expected, None where an object is.
Null == "null"

None == [none |-> TRUE]

\* All sequences over S of length at most n.
SeqsUpTo(S, n) == UNION {[1..k -> S] : k \in 0..n}

VARIABLES
  \* ---- server, payment routes ----
  verifyReq,        \* the body of the last POST /api/payment/verify, or None
  verifyRes,        \* the response the handler sent for it, or None
  createReq,        \* the body of the last POST /api/payment/create-order
  createRes,        \* the response the handler sent for it, or None
  orders,           \* the orders createOrder has issued
  webhookReq,       \* the last POST /api/payment/webhook: body and signature
  webhookRes,       \* the response the handler sent for it, or None
  delivered,        \* the events handleWebhook has accepted, in order
  paidRecords,      \* the payments the server has recorded as paid

  \* ---- client, PaymentContext.tsx ----
  paymentState,     \* PaymentState: currentPayment, isProcessing, error,
                    \* lastPaymentResult
  rendered,         \* the `state` the callbacks of the last render closed over
  initCalls,        \* the calls of initializePayment, by number
  attempts,         \* the calls of processRazorpayPayment, by number
  gatewayOrders,    \* the order ids POST /api/payment/create-order has issued
  verifiedPayments, \* the payments POST /api/payment/verify has accepted

  \* ---- client, the payment pages ----
  page,             \* which of the two payment pages is mounted
  totalAmount,      \* the total of the order, in rupees
  ctxFiles,         \* the valid files of the documents context
  idbFiles,         \* the files staged in IndexedDB
  fatalError,       \* useState of the page
  showUploadDialog,
  showSuccessDialog,
  uploadProgress,
  runs,             \* the invocations of handlePayNow, by number
  charges,          \* the payments the gateway has captured
  tempCost,         \* localStorage holds udin_temp_cost, the cost breakdown
                    \* the upload page saved

  \* ---- server, upload routes ----
  uploadRecords,    \* upload-records.json: the files of each accepted batch
  uploadReqs,       \* the requests POST /api/uploads/files, by number

  \* ---- client, pricing ----
  docFiles,         \* the files of the documents context
  pricingState,     \* PricingState: currentOrder and calculation
  costPopup,        \* the cost breakdown of the upload page, or None
  pricingCall,      \* the last call of calculateFromFiles: its files and
                    \* the calculation it returned, or None

  \* ---- client, the upload page ----
  stagedFiles,      \* useState files of the upload page
  renderedFiles,    \* files as the handlers of the last render captured it
  fileStore,        \* the uploaded_files store of IndexedDB
  stageCalls,       \* the calls of the handlers of the upload page, by number
  issuedFileIds     \* how many file ids the upload page has generated

routeVars == <<verifyReq, verifyRes, createReq, createRes, orders>>

webhookVars == <<webhookReq, webhookRes, delivered, paidRecords>>

contextVars ==
  <<paymentState, rendered, initCalls, attempts, gatewayOrders, verifiedPayments>>

pageVars ==
  <<page, totalAmount, ctxFiles, idbFiles, fatalError, showUploadDialog,
    showSuccessDialog, uploadProgress, runs, charges, tempCost>>

uploadVars == <<uploadRecords, uploadReqs>>

pricingVars == <<docFiles, pricingState, costPopup, pricingCall>>

stageVars ==
  <<stagedFiles, renderedFiles, fileStore, stageCalls, issuedFileIds>>

vars ==
  <<routeVars, webhookVars, contextVars, pageVars, uploadVars, pricingVars, stageVars>>

\* What the steps of one component leave alone: the other components.
outsideRoutes ==
  <<webhookVars, contextVars, pageVars, uploadVars, pricingVars, stageVars>>

outsideContext ==
  <<routeVars, webhookVars, pageVars, uploadVars, pricingVars, stageVars>>

outsidePage ==
  <<routeVars, webhookVars, contextVars, uploadVars, pricingVars, stageVars>>

outsideStage ==
  <<routeVars, webhookVars, contextVars, pageVars, uploadVars, pricingVars>>

outsideDirect == <<routeVars, webhookVars, contextVars, pricingVars, stageVars>>

\* ========================================================================
\* Server: payment routes
\* ========================================================================

\* The characters ids are made of; "|" is the separator verifyPayment puts
\* between the order id and the payment id.
IdChars == {"a", "|"}

\* The digits of a digest.
DigestDigits == 0..3

\* An id is a string; the empty string is falsy in JavaScript.
Ids == SeqsUpTo(IdChars, MaxIdLen)

\* A signature as a client may send it: any string of digest digits, of any
\* length up to the digest's, the empty string included.
Signatures == SeqsUpTo(DigestDigits, 2)

RAZORPAY_KEY_SECRET == 7

CharCode(c) == IF c = "|" THEN 3 ELSE 1

\* crypto.createHmac('sha256', key).update(msg).digest('hex'): a keyed digest
\* of fixed length.  The library function is abstracted to a keyed polynomial
\* hash of the message's characters, written as two digits.
RECURSIVE HmacFold(_, _, _)
HmacFold(key, msg, acc) ==
  IF msg = <<>> THEN acc
  ELSE HmacFold(key, Tail(msg), (acc * 5 + CharCode(Head(msg)) + key) % 16)

createHmac(key, msg) ==
  LET h == HmacFold(key, msg, key % 16) IN <<h \div 4, h % 4>>

\* `${orderId}|${paymentId}`
SignedMessage(orderId, paymentId) == orderId \o <<"|">> \o paymentId

expectedSignature(orderId, paymentId) ==
  createHmac(RAZORPAY_KEY_SECRET, SignedMessage(orderId, paymentId))

\* !x for a string x
Falsy(s) == s = <<>>

verifyPaymentResponseSkipsComparison(body) ==
  IF Falsy(body.paymentId) \/ Falsy(body.orderId) \/ Falsy(body.signature)
  THEN [status |-> 400, success |-> FALSE,
        error |-> "Missing required fields: paymentId, orderId, signature"]
  ELSE [status |-> 200, success |-> TRUE, error |-> Null]

\* The response of verifyPayment to a request body.
verifyPaymentResponse(body) ==
  IF Falsy(body.paymentId) \/ Falsy(body.orderId) \/ Falsy(body.signature)
  THEN [status |-> 400, success |-> FALSE,
        error |-> "Missing required fields: paymentId, orderId, signature"]
  ELSE IF expectedSignature(body.orderId, body.paymentId) = body.signature
       THEN [status |-> 200, success |-> TRUE, error |-> Null]
       ELSE [status |-> 400, success |-> FALSE,
             error |-> "Invalid payment signature"]

VerifyBodies == [paymentId : Ids, orderId : Ids, signature : Signatures]

\* A client posts a body to /api/payment/verify.
postVerify ==
  /\ verifyReq = None
  /\ createReq = None
  /\ \E body \in VerifyBodies : verifyReq' = body
  /\ verifyRes' = None
  /\ UNCHANGED <<createReq, createRes, orders, outsideRoutes>>

\* The handler of POST /api/payment/verify answers the request.
verifyPayment ==
  /\ verifyReq # None
  /\ verifyRes = None
  /\ verifyRes' = verifyPaymentResponse(verifyReq)
  /\ UNCHANGED <<verifyReq, createReq, createRes, orders, outsideRoutes>>

\* The exchange is over; the stateless handler is ready for the next one.
closeVerify ==
  /\ verifyRes # None
  /\ verifyReq' = None
  /\ verifyRes' = None
  /\ UNCHANGED <<createReq, createRes, orders, outsideRoutes>>

\* ---- POST /api/payment/create-order ----

\* The values a field of a JSON body can have, as far as createOrder tells
\* them apart: absent, a number, a string.  A number is kept in halves, so
\* that a number that is not an integer can be sent.
Undefined == [t |-> "undefined"]

Num(halves) == [t |-> "number", halves |-> halves]

Str(chars) == [t |-> "string", chars |-> chars]

\* !v
Not(v) ==
  CASE v.t = "undefined" -> TRUE
    [] v.t = "number" -> v.halves = 0
    [] v.t = "string" -> v.chars = ""

\* Number.isInteger(v)
IsInteger(v) == v.t = "number" /\ v.halves % 2 = 0

AmountValues ==
  {Undefined, Str("100"), Num(0 - 200), Num(0), Num(1), Num(200), Num(400)}

CurrencyValues == {Undefined, Str(""), Str("INR"), Str("USD")}

ReceiptValues == {Undefined, Str(""), Str("receipt_1")}

CreateOrderBodies ==
  [amount : AmountValues, currency : CurrencyValues, receipt : ReceiptValues]

BadRequest(msg) ==
  [status |-> 400, success |-> FALSE, error |-> msg, order |-> None]

createOrderResponseIgnoresCurrency(body, id) ==
  IF Not(body.amount) \/ Not(body.currency) \/ Not(body.receipt)
  THEN BadRequest("Missing required fields: amount, currency, receipt")
  ELSE IF body.amount.t # "number" \/ body.amount.halves <= 0
          \/ ~IsInteger(body.amount)
  THEN BadRequest("Amount should be a positive integer in paise")
  ELSE [status |-> 200, success |-> TRUE, error |-> Null,
        order |-> [id |-> id, amount |-> body.amount,
                   currency |-> body.currency, receipt |-> body.receipt]]

\* The response of createOrder to a request body; id is the random id of
\* the order it would create.
createOrderResponse(body, id) ==
  IF Not(body.amount) \/ Not(body.currency) \/ Not(body.receipt)
  THEN BadRequest("Missing required fields: amount, currency, receipt")
  ELSE IF body.amount.t # "number" \/ body.amount.halves <= 0
          \/ ~IsInteger(body.amount)
  THEN BadRequest("Amount should be a positive integer in paise")
  ELSE IF body.currency # Str("INR")
  THEN BadRequest("Only INR currency is supported")
  ELSE [status |-> 200, success |-> TRUE, error |-> Null,
        order |-> [id |-> id, amount |-> body.amount,
                   currency |-> body.currency, receipt |-> body.receipt]]

\* A client posts a body to /api/payment/create-order.
postCreateOrder ==
  /\ createReq = None
  /\ verifyReq = None
  /\ Len(orders) < MaxOrders
  /\ \E body \in CreateOrderBodies : createReq' = body
  /\ createRes' = None
  /\ UNCHANGED <<verifyReq, verifyRes, orders, outsideRoutes>>

\* The handler of POST /api/payment/create-order answers the request.
createOrder ==
  /\ createReq # None
  /\ createRes = None
  /\ createRes' = createOrderResponse(createReq, Len(orders) + 1)
  /\ orders' = IF createRes'.success THEN Append(orders, createRes'.order)
               ELSE orders
  /\ UNCHANGED <<createReq, verifyReq, verifyRes, outsideRoutes>>

\* The exchange is over.
closeCreateOrder ==
  /\ createRes # None
  /\ createReq' = None
  /\ createRes' = None
  /\ UNCHANGED <<verifyReq, verifyRes, orders, outsideRoutes>>

RoutesInit ==
  /\ verifyReq = None
  /\ verifyRes = None
  /\ createReq = None
  /\ createRes = None
  /\ orders = <<>>

RoutesNext ==
  \/ postVerify
  \/ verifyPayment
  \/ closeVerify
  \/ postCreateOrder
  \/ createOrder
  \/ closeCreateOrder



\* ========================================================================
\* Server: POST /api/payment/webhook
\* ========================================================================

EventNames == {"payment.captured", "payment.failed", "order.paid", "refund.created"}

\* The payments of the gateway; 0 stands for a body without a payload.
WebhookPayments == 0..2

WebhookBodies == [event : EventNames, payment : WebhookPayments]

EventCode(event) ==
  CASE event = "payment.captured" -> 1
    [] event = "payment.failed" -> 2
    [] event = "order.paid" -> 3
    [] OTHER -> 4

\* JSON.stringify(req.body): a text that tells any two bodies apart, written
\* in the characters the digest is defined for.
JSONstringify(body) ==
  [i \in 1..EventCode(body.event) |-> "a"] \o <<"|">>
    \o [i \in 1..body.payment |-> "a"]

webhookExpectedSignature(body) ==
  createHmac(RAZORPAY_KEY_SECRET, JSONstringify(body))

WebhookRequests == [body : WebhookBodies, signature : Signatures]

\* What the switch on event.event does to the paid records of the server:
\* every branch only logs the entity of the event.
webhookRecordsAppendsCaptured(body, records) ==
  IF body.event = "payment.captured"
  THEN Append(records, body.payment)
  ELSE records

webhookRecords(body, records) == records

\* The response of handleWebhook.  A branch of the switch that reads the
\* payload of an event without one throws, and the catch block answers.
handleWebhookResponse(req) ==
  IF req.signature # webhookExpectedSignature(req.body)
  THEN [status |-> 400, success |-> FALSE, error |-> "Invalid webhook signature"]
  ELSE IF req.body.payment = 0 /\ req.body.event # "refund.created"
  THEN [status |-> 500, success |-> FALSE, error |-> "Webhook processing failed"]
  ELSE [status |-> 200, success |-> TRUE, error |-> Null]

WebhookInit ==
  /\ webhookReq = None
  /\ webhookRes = None
  /\ delivered = <<>>
  /\ paidRecords = <<>>

\* The gateway, or anyone else, posts an event with a signature header.
postWebhook ==
  /\ webhookReq = None
  /\ Len(delivered) < MaxDeliveries
  /\ \E req \in WebhookRequests : webhookReq' = req
  /\ UNCHANGED <<webhookRes, delivered, paidRecords, routeVars, contextVars,
                 pageVars, uploadVars, pricingVars, stageVars>>

\* handleWebhook answers the request.
handleWebhook ==
  /\ webhookReq # None
  /\ webhookRes = None
  /\ webhookRes' = handleWebhookResponse(webhookReq)
  /\ IF webhookRes'.success
     THEN /\ delivered' = Append(delivered, webhookReq.body)
          /\ paidRecords' = webhookRecords(webhookReq.body, paidRecords)
     ELSE UNCHANGED <<delivered, paidRecords>>
  /\ UNCHANGED <<webhookReq, routeVars, contextVars, pageVars, uploadVars,
                 pricingVars, stageVars>>

\* The exchange is over.
closeWebhook ==
  /\ webhookRes # None
  /\ webhookReq' = None
  /\ webhookRes' = None
  /\ UNCHANGED <<delivered, paidRecords, routeVars, contextVars, pageVars,
                 uploadVars, pricingVars, stageVars>>

WebhookNext == postWebhook \/ handleWebhook \/ closeWebhook

\* ========================================================================
\* Client: PaymentContext.tsx
\* ========================================================================

initialState ==
  [currentPayment |-> None, isProcessing |-> FALSE, error |-> Null,
   lastPaymentResult |-> None]

\* What a callback created by a render reads of `state`: initializePayment
\* reads isProcessing and currentPayment, processRazorpayPayment and
\* retryPayment read currentPayment (their useCallback dependencies).
Snapshot(st) ==
  [isProcessing |-> st.isProcessing, currentPayment |-> st.currentPayment]

\* Order totals (rupees) and item counts a caller may pass.
Totals == {0, 500}

ItemCounts == 0..1

InitCallIds == 1..MaxInitCalls

AttemptIds == 1..MaxAttempts

UnusedCall == [pc |-> "unused", amount |-> 0]

UnusedAttempt ==
  [pc |-> "unused", orderId |-> 0, events |-> <<>>, verification |-> "none",
   result |-> None]

\* The PaymentResult values the context produces.
SuccessResult(orderId) == [success |-> TRUE, orderId |-> orderId, error |-> Null]

ErrorResult(msg) == [success |-> FALSE, orderId |-> 0, error |-> msg]

\* What apiService.request reports for a failed call that was given an
\* errorMessage: the timeout and the network message replace it.
ApiErrors(errorMessage) ==
  {errorMessage, "Request timed out. Please try again.",
   "Network error. Please check your connection."}

ContextInit ==
  /\ paymentState = initialState
  /\ rendered = Snapshot(initialState)
  /\ initCalls = [i \in InitCallIds |-> UnusedCall]
  /\ attempts = [a \in AttemptIds |-> UnusedAttempt]
  /\ gatewayOrders = <<>>
  /\ verifiedPayments = {}

\* React renders the provider again: the callbacks are re-created over the
\* current state.
Render ==
  /\ rendered # Snapshot(paymentState)
  /\ rendered' = Snapshot(paymentState)
  /\ UNCHANGED <<paymentState, initCalls, attempts, gatewayOrders, verifiedPayments, outsideContext>>

\* The next unused number of a call.
NextFree(f, ids) == CHOOSE i \in ids : f[i].pc = "unused" /\ \A j \in ids : j < i => f[j].pc # "unused"

HasFree(f, ids) == \E i \in ids : f[i].pc = "unused"

\* The guard at the head of initializePayment, read from the closure.
initializePaymentGuardIgnoresProcessing(closure) == closure.currentPayment # None

initializePaymentGuard(closure) ==
  closure.isProcessing \/ closure.currentPayment # None

\* initializePayment(orderItems, calculation, customerInfo) up to its first
\* await: the guard, setState(isProcessing), the validation of the inputs and
\* the POST of the create-order request.
initializePaymentFrom(items, total, paise) ==
  /\ HasFree(initCalls, InitCallIds)
  /\ LET i == NextFree(initCalls, InitCallIds) IN
       IF initializePaymentGuard(rendered)
       THEN /\ initCalls' = [initCalls EXCEPT ![i].pc = "rejected"]
            /\ UNCHANGED paymentState
       ELSE IF items = 0 \/ total <= 0
       THEN /\ initCalls' = [initCalls EXCEPT ![i].pc = "invalid"]
            /\ paymentState' =
                 [paymentState EXCEPT !.error = "Invalid order items or amount",
                                      !.isProcessing = FALSE]
       ELSE /\ initCalls' =
                 [initCalls EXCEPT ![i] = [pc |-> "pending", amount |-> paise]]
            /\ paymentState' =
                 [paymentState EXCEPT !.isProcessing = TRUE, !.error = Null]
  /\ UNCHANGED <<rendered, attempts, gatewayOrders, verifiedPayments>>

\* A call with a total in rupees.
initializePayment(items, total) ==
  /\ initializePaymentFrom(items, total, total * 100)
  /\ UNCHANGED outsideContext

\* The create-order request of call i is answered with a new order: the
\* call stores it as currentPayment.
createOrderSucceeds(i) ==
  /\ initCalls[i].pc = "pending"
  /\ LET id == Len(gatewayOrders) + 1 IN
       /\ gatewayOrders' = Append(gatewayOrders, id)
       /\ paymentState' =
            [paymentState EXCEPT
               !.currentPayment = [orderId |-> id, amount |-> initCalls[i].amount],
               !.isProcessing = FALSE]
  /\ initCalls' = [initCalls EXCEPT ![i].pc = "created"]
  /\ UNCHANGED <<rendered, attempts, verifiedPayments, outsideContext>>

\* The create-order request of call i fails (an error response, a timeout,
\* no network): the catch block records the message.
createOrderFails(i) ==
  /\ initCalls[i].pc = "pending"
  /\ \E msg \in ApiErrors("Failed to create payment order") :
       paymentState' =
         [paymentState EXCEPT !.error = msg, !.isProcessing = FALSE]
  /\ initCalls' = [initCalls EXCEPT ![i].pc = "failed"]
  /\ UNCHANGED <<rendered, attempts, gatewayOrders, verifiedPayments, outsideContext>>

\* The state after the setState calls of a finished attempt.
Finished(st, result) ==
  [st EXCEPT !.lastPaymentResult = result,
             !.error = IF result.success THEN st.error ELSE result.error,
             !.isProcessing = FALSE]

\* processRazorpayPayment() up to its first await; noPayment is the message
\* of the caller's own guard (retryPayment has one of its own).
startAttempt(noPayment) ==
  /\ HasFree(attempts, AttemptIds)
  /\ LET a == NextFree(attempts, AttemptIds) IN
       IF rendered.currentPayment = None
       THEN /\ attempts' =
                 [attempts EXCEPT ![a].pc = "returned",
                                  ![a].result = ErrorResult(noPayment)]
            /\ UNCHANGED paymentState
       ELSE /\ attempts' =
                 [attempts EXCEPT ![a].pc = "loading",
                                  ![a].orderId = rendered.currentPayment.orderId]
            /\ paymentState' =
                 [paymentState EXCEPT !.isProcessing = TRUE, !.error = Null]
  /\ UNCHANGED <<rendered, initCalls, gatewayOrders, verifiedPayments, outsideContext>>

processRazorpayPayment == startAttempt("No payment initialized")

\* handlePayNow of the page that pays through the context: the Pay button is
\* shown once a payment is initialized and is disabled while processing, both
\* as of the last render.
handlePayNowContext ==
  /\ rendered.currentPayment # None
  /\ ~rendered.isProcessing
  /\ processRazorpayPayment

retryPayment == startAttempt("No payment to retry")

\* loadRazorpayScript() resolves false: the catch block of
\* processRazorpayPayment returns an error result.
scriptLoadFails(a) ==
  /\ attempts[a].pc = "loading"
  /\ LET r == ErrorResult("Failed to load Razorpay") IN
       /\ attempts' = [attempts EXCEPT ![a].pc = "returned", ![a].result = r]
       /\ paymentState' = Finished(paymentState, r)
  /\ UNCHANGED <<rendered, initCalls, gatewayOrders, verifiedPayments, outsideContext>>

\* The script and the configuration are there: new Razorpay(options), open().
openCheckout(a) ==
  /\ attempts[a].pc = "loading"
  /\ attempts' = [attempts EXCEPT ![a].pc = "open"]
  /\ UNCHANGED <<paymentState, rendered, initCalls, gatewayOrders, verifiedPayments, outsideContext>>

\* new Razorpay(options) or open() throws inside the executor of the returned
\* promise: the promise rejects outside the try block and no state is set.
openCheckoutThrows(a) ==
  /\ attempts[a].pc = "loading"
  /\ attempts' = [attempts EXCEPT ![a].pc = "threw"]
  /\ UNCHANGED <<paymentState, rendered, initCalls, gatewayOrders, verifiedPayments, outsideContext>>

\* The popup reports payment.failed; the options of processRazorpayPayment
\* register no listener for it.  The popup stays open.
paymentFailed(a) ==
  /\ attempts[a].pc = "open"
  /\ attempts[a].events = <<>>
  /\ attempts' = [attempts EXCEPT ![a].events = Append(@, "failed")]
  /\ UNCHANGED <<paymentState, rendered, initCalls, gatewayOrders, verifiedPayments, outsideContext>>

\* The popup reports success: handler(response) posts the verification.
handler(a) ==
  /\ attempts[a].pc = "open"
  /\ attempts' = [attempts EXCEPT ![a].pc = "verifying",
                                  ![a].events = Append(@, "success")]
  /\ UNCHANGED <<paymentState, rendered, initCalls, gatewayOrders, verifiedPayments, outsideContext>>

\* The server verified the payment (the payment of attempt a is payment a).
verificationSucceeds(a) ==
  /\ attempts[a].pc = "verifying"
  /\ LET r == SuccessResult(attempts[a].orderId) IN
       /\ attempts' = [attempts EXCEPT ![a].pc = "returned",
                                       ![a].verification = "verified",
                                       ![a].result = r]
       /\ paymentState' = Finished(paymentState, r)
  /\ verifiedPayments' = verifiedPayments \cup {a}
  /\ UNCHANGED <<rendered, initCalls, gatewayOrders, outsideContext>>

\* The verification was refused or did not get through.
verificationFails(a) ==
  /\ attempts[a].pc = "verifying"
  /\ \E msg \in ApiErrors("Payment verification failed") :
       LET r == ErrorResult(msg) IN
         /\ attempts' = [attempts EXCEPT ![a].pc = "returned",
                                         ![a].verification = "refused",
                                         ![a].result = r]
         /\ paymentState' = Finished(paymentState, r)
  /\ UNCHANGED <<rendered, initCalls, gatewayOrders, verifiedPayments, outsideContext>>

\* The user closes the popup: modal.ondismiss.
ondismiss(a) ==
  /\ attempts[a].pc = "open"
  /\ LET r == ErrorResult("Payment cancelled by user") IN
       /\ attempts' = [attempts EXCEPT ![a].pc = "returned",
                                       ![a].events = Append(@, "dismiss"),
                                       ![a].result = r]
       /\ paymentState' = Finished(paymentState, r)
  /\ UNCHANGED <<rendered, initCalls, gatewayOrders, verifiedPayments, outsideContext>>

ContextNext ==
  \/ Render
  \/ \E items \in ItemCounts, total \in Totals : initializePayment(items, total)
  \/ \E i \in InitCallIds : createOrderSucceeds(i)
  \/ \E i \in InitCallIds : createOrderFails(i)
  \/ handlePayNowContext
  \/ retryPayment
  \/ \E a \in AttemptIds : scriptLoadFails(a)
  \/ \E a \in AttemptIds : openCheckout(a)
  \/ \E a \in AttemptIds : openCheckoutThrows(a)
  \/ \E a \in AttemptIds : paymentFailed(a)
  \/ \E a \in AttemptIds : handler(a)
  \/ \E a \in AttemptIds : verificationSucceeds(a)
  \/ \E a \in AttemptIds : verificationFails(a)
  \/ \E a \in AttemptIds : ondismiss(a)

\* ========================================================================
\* Client: the payment page that pays through a client-only popup and
\* uploads through presigned URLs
\* ========================================================================

RunIds == 1..MaxClicks

\* The staged files are numbered; a list of staged files holds the first k.
StagedLists == {[i \in 1..k |-> i] : k \in 0..MaxStaged}

CONCURRENCY == 3

\* The presigned page (part_004) and pages/Payment.tsx are two
\* implementations of the same route; a session mounts one of them.
PageKinds == {"presigned", "direct"}

UnusedRun ==
  [pc |-> "unused", popup |-> "none", amountPaise |-> 0, txId |-> FALSE,
   paymentId |-> 0, allFiles |-> <<>>, started |-> 0, running |-> 0,
   completed |-> 0, failed |-> 0, failedStored |-> 0, reported |-> 0 - 1]

\* The page as it is mounted, with nothing staged and nothing to pay.
PageIdle ==
  /\ page = "direct"
  /\ totalAmount = 0
  /\ ctxFiles = <<>>
  /\ idbFiles = <<>>
  /\ fatalError = Null
  /\ showUploadDialog = FALSE
  /\ showSuccessDialog = FALSE
  /\ uploadProgress = 0
  /\ runs = [r \in RunIds |-> UnusedRun]
  /\ charges = 0
  /\ tempCost = FALSE

\* The page as it is mounted after the upload page staged files and saved
\* their cost (handleProceedToRegistration), and the pricing context
\* computed a total.
PageInit ==
  /\ page \in PageKinds
  /\ totalAmount \in Totals
  /\ ctxFiles \in StagedLists
  /\ idbFiles \in StagedLists
  /\ fatalError = Null
  /\ showUploadDialog = FALSE
  /\ showSuccessDialog = FALSE
  /\ uploadProgress = 0
  /\ runs = [r \in RunIds |-> UnusedRun]
  /\ charges = 0
  /\ tempCost = TRUE

Max(a, b) == IF a >= b THEN a ELSE b

Min(a, b) == IF a <= b THEN a ELSE b

\* Math.round(rupees * 100) for a whole number of rupees.
RoundToPaise(rupees) == rupees * 100

\* Math.max(100, Math.round(rupees * 100))
amountPaise(rupees) == Max(100, RoundToPaise(rupees))

\* The share of the files that are still to come, instead of the share done.
RoundPercentPending(completed, totalFiles) ==
  (200 * (totalFiles - completed) + totalFiles) \div (2 * totalFiles)

\* Math.round((completed / totalFiles) * 100)
RoundPercent(completed, totalFiles) ==
  (200 * completed + totalFiles) \div (2 * totalFiles)

\* The Pay button can be clicked: no modal dialog of the page and no
\* checkout popup lies over it.
PayButtonReachable ==
  /\ ~showUploadDialog
  /\ ~showSuccessDialog
  /\ \A r \in RunIds : runs[r].popup # "open"

\* The catch block of handlePayNow.
Caught(r, msg) ==
  /\ runs' = [runs EXCEPT ![r].pc = "failed"]
  /\ fatalError' = msg
  /\ showUploadDialog' = FALSE

\* handlePayNow up to its first await: the amount and the (dead) guard on
\* it, then the create-transaction request.
handlePayNowPresigned ==
  /\ PayButtonReachable
  /\ HasFree(runs, RunIds)
  /\ LET r == NextFree(runs, RunIds) IN
       IF amountPaise(totalAmount) < 100
       THEN Caught(r, "Amount must be at least 1.00")
       ELSE /\ runs' = [runs EXCEPT ![r].pc = "creatingTx",
                                    ![r].amountPaise = amountPaise(totalAmount)]
            /\ fatalError' = Null
            /\ UNCHANGED showUploadDialog
  /\ UNCHANGED <<page, tempCost, totalAmount, ctxFiles, idbFiles, showSuccessDialog,
                 uploadProgress, charges, outsidePage>>

\* createTransaction answers (a failure is logged and ignored); the script
\* of the gateway is requested.
createTransaction(r, ok) ==
  /\ runs[r].pc = "creatingTx"
  /\ runs' = [runs EXCEPT ![r].pc = "loadingScript", ![r].txId = ok]
  /\ UNCHANGED <<page, tempCost, totalAmount, ctxFiles, idbFiles, fatalError, showUploadDialog,
                 showSuccessDialog, uploadProgress, charges, outsidePage>>

\* loadRazorpayScript resolves: openRazorpayCheckoutClientOnly opens the popup.
openRazorpayCheckoutClientOnly(r) ==
  /\ runs[r].pc = "loadingScript"
  /\ runs' = [runs EXCEPT ![r].pc = "checkout", ![r].popup = "open"]
  /\ UNCHANGED <<page, tempCost, totalAmount, ctxFiles, idbFiles, fatalError, showUploadDialog,
                 showSuccessDialog, uploadProgress, charges, outsidePage>>

\* loadRazorpayScript rejects.
loadRazorpayScriptFails(r) ==
  /\ runs[r].pc = "loadingScript"
  /\ Caught(r, "Failed to load Razorpay SDK")
  /\ UNCHANGED <<page, tempCost, totalAmount, ctxFiles, idbFiles, showSuccessDialog,
                 uploadProgress, charges, outsidePage>>

\* The popup reports a successful payment: the gateway has captured it.  The
\* promise resolves with the payment id, unless it has been rejected before,
\* and handlePayNow goes on to show the upload dialog and to read IndexedDB.
popupHandler(r) ==
  /\ runs[r].popup \in {"open", "failedOnce"}
  /\ charges' = charges + 1
  /\ IF runs[r].pc = "checkout"
     THEN /\ runs' = [runs EXCEPT ![r].pc = "fetching", ![r].popup = "closed",
                                  ![r].paymentId = charges + 1]
          /\ showUploadDialog' = TRUE
     ELSE /\ runs' = [runs EXCEPT ![r].popup = "closed"]
          /\ UNCHANGED showUploadDialog
  /\ UNCHANGED <<page, tempCost, totalAmount, ctxFiles, idbFiles, fatalError,
                 showSuccessDialog, uploadProgress, outsidePage>>

\* The popup reports payment.failed: the promise is rejected; the popup
\* stays open for the one retry its options allow.
popupPaymentFailed(r) ==
  /\ runs[r].popup = "open"
  /\ runs[r].pc = "checkout"
  /\ runs' = [runs EXCEPT ![r].pc = "failed", ![r].popup = "failedOnce"]
  /\ fatalError' = "Payment failed in Razorpay popup"
  /\ showUploadDialog' = FALSE
  /\ UNCHANGED <<page, tempCost, totalAmount, ctxFiles, idbFiles, showSuccessDialog,
                 uploadProgress, charges, outsidePage>>

\* The user closes the popup: modal.ondismiss rejects the promise, unless it
\* has been rejected before.
popupDismiss(r) ==
  /\ runs[r].popup \in {"open", "failedOnce"}
  /\ IF runs[r].pc = "checkout"
     THEN /\ runs' = [runs EXCEPT ![r].pc = "failed", ![r].popup = "closed"]
          /\ fatalError' = "Payment popup dismissed by user"
          /\ showUploadDialog' = FALSE
     ELSE /\ runs' = [runs EXCEPT ![r].popup = "closed"]
          /\ UNCHANGED <<fatalError, showUploadDialog>>
  /\ UNCHANGED <<page, tempCost, totalAmount, ctxFiles, idbFiles, showSuccessDialog,
                 uploadProgress, charges, outsidePage>>

\* const totalFiles = allFiles.length || 1
totalFiles(run) == IF Len(run.allFiles) = 0 THEN 1 ELSE Len(run.allFiles)

\* Where handlePayNow awaits next once Promise.all(pool) has resolved.
AfterUploads(run) == IF run.txId THEN "updatingTx" ELSE "clearing"

\* The loop over allFiles, entered or resumed: files are pushed into the
\* pool, in the order of allFiles, while it holds fewer than CONCURRENCY
\* unsettled transfers.  The transfers in flight are told apart by nothing
\* the page reads, so a run keeps their number: started counts the files
\* pushed so far, running the transfers that have not settled.
FillPoolWithoutLimit(run) ==
  LET more == Len(run.allFiles) - run.started
  IN [run EXCEPT !.started = @ + more, !.running = @ + more]

FillPool(run) ==
  LET more == Min(Len(run.allFiles) - run.started, CONCURRENCY - run.running)
  IN [run EXCEPT !.started = @ + more, !.running = @ + more]

\* What the await of the loop does when a transfer settles with the given
\* outcome, the pool holding `running` other transfers: a rejection rejects
\* Promise.race and Promise.all alike.
PoolAwaitIgnoresRejection(run, running, outcome) ==
  IF run.started < Len(run.allFiles) THEN "race"
  ELSE IF running > 0 THEN "all"
  ELSE AfterUploads(run)

PoolAwait(run, running, outcome) ==
  IF outcome # "registered" THEN "failed"
  ELSE IF run.started < Len(run.allFiles) THEN "race"
  ELSE IF running > 0 THEN "all"
  ELSE AfterUploads(run)

\* getFilesFromIndexedDB resolves: allFiles is built from the files of the
\* context and the fetched ones, and the pool is filled.
getFilesFromIndexedDB(r) ==
  /\ runs[r].pc = "fetching"
  /\ LET run == FillPool([runs[r] EXCEPT !.allFiles = ctxFiles \o idbFiles])
     IN runs' = [runs EXCEPT ![r] =
                   [run EXCEPT !.pc = PoolAwait(run, run.running, "registered")]]
  /\ UNCHANGED <<page, tempCost, totalAmount, ctxFiles, idbFiles, fatalError, showUploadDialog,
                 showSuccessDialog, uploadProgress, charges, outsidePage>>

\* getFilesFromIndexedDB rejects.
getFilesFromIndexedDBFails(r) ==
  /\ runs[r].pc = "fetching"
  /\ Caught(r, "IndexedDB request failed")
  /\ UNCHANGED <<page, tempCost, totalAmount, ctxFiles, idbFiles, showSuccessDialog,
                 uploadProgress, charges, outsidePage>>

\* How processOne(file) can end: the document is registered; or the presign
\* or the PUT failed and nothing is stored; or the PUT stored the file and
\* saveDocumentRecord failed.
Outcomes == {"registered", "failed", "failedStored"}

ErrorOf(outcome) ==
  IF outcome = "failed" THEN "S3 upload failed" ELSE "Failed to save document"

\* The run after one of its transfers has settled with the outcome.
Settled(run, outcome) ==
  [run EXCEPT !.running = @ - 1,
              !.completed = IF outcome = "registered" THEN @ + 1 ELSE @,
              !.failed = IF outcome = "failed" THEN @ + 1 ELSE @,
              !.failedStored = IF outcome = "failedStored" THEN @ + 1 ELSE @]

\* processOne(file) settles for one of the files in flight of run r.  A
\* registered file counts as completed and moves the progress; the await of
\* the loop, if handlePayNow is still in it, resumes or rejects.  The
\* continuation of handlePayNow runs in the microtasks of the task that
\* settles the transfer, before another transfer can settle, so the two are
\* one step.
processOne(r, outcome) ==
  /\ runs[r].running > 0
  /\ LET run == Settled(runs[r], outcome)
         inLoop == run.pc \in {"race", "all"}
         pc == IF inLoop THEN PoolAwait(run, run.running, outcome) ELSE run.pc
         next == IF inLoop /\ pc # "failed" THEN FillPool(run) ELSE run
         progress == RoundPercent(run.completed, totalFiles(run))
     IN /\ runs' = [runs EXCEPT ![r] =
                      [next EXCEPT !.pc = pc,
                                   !.reported = IF outcome = "registered"
                                                THEN progress ELSE @]]
        /\ uploadProgress' =
             IF outcome = "registered" THEN progress ELSE uploadProgress
        /\ IF inLoop /\ pc = "failed"
           THEN /\ fatalError' = ErrorOf(outcome)
                /\ showUploadDialog' = FALSE
           ELSE UNCHANGED <<fatalError, showUploadDialog>>
  /\ UNCHANGED <<page, tempCost, totalAmount, ctxFiles, idbFiles, showSuccessDialog, charges,
                 outsidePage>>

\* updateTransaction answers (a failure is logged and ignored).
updateTransaction(r) ==
  /\ runs[r].pc = "updatingTx"
  /\ runs' = [runs EXCEPT ![r].pc = "clearing"]
  /\ UNCHANGED <<page, tempCost, totalAmount, ctxFiles, idbFiles, fatalError, showUploadDialog,
                 showSuccessDialog, uploadProgress, charges, outsidePage>>

\* clearIndexedDBFiles resolves: the files of the context are cleared and
\* the success dialog replaces the upload dialog.
clearIndexedDBFiles(r) ==
  /\ runs[r].pc = "clearing"
  /\ runs' = [runs EXCEPT ![r].pc = "completed"]
  /\ idbFiles' = <<>>
  /\ ctxFiles' = <<>>
  /\ showUploadDialog' = FALSE
  /\ showSuccessDialog' = TRUE
  /\ UNCHANGED <<page, tempCost, totalAmount, fatalError, uploadProgress, charges, outsidePage>>

\* clearIndexedDBFiles rejects.
clearIndexedDBFilesFails(r) ==
  /\ runs[r].pc = "clearing"
  /\ Caught(r, "IndexedDB request failed")
  /\ UNCHANGED <<page, tempCost, totalAmount, ctxFiles, idbFiles, showSuccessDialog,
                 uploadProgress, charges, outsidePage>>

\* The user closes the upload dialog (onOpenChange).
closeUploadDialog ==
  /\ showUploadDialog
  /\ showUploadDialog' = FALSE
  /\ UNCHANGED <<page, tempCost, totalAmount, ctxFiles, idbFiles, fatalError, showSuccessDialog,
                 uploadProgress, runs, charges, outsidePage>>

\* The user closes the success dialog (onOpenChange).
closeSuccessDialog ==
  /\ showSuccessDialog
  /\ showSuccessDialog' = FALSE
  /\ UNCHANGED <<page, tempCost, totalAmount, ctxFiles, idbFiles, fatalError, showUploadDialog,
                 uploadProgress, runs, charges, outsidePage>>

PresignedNext ==
  \/ handlePayNowPresigned
  \/ \E r \in RunIds, ok \in BOOLEAN : createTransaction(r, ok)
  \/ \E r \in RunIds : openRazorpayCheckoutClientOnly(r)
  \/ \E r \in RunIds : loadRazorpayScriptFails(r)
  \/ \E r \in RunIds : popupHandler(r)
  \/ \E r \in RunIds : popupPaymentFailed(r)
  \/ \E r \in RunIds : popupDismiss(r)
  \/ \E r \in RunIds : getFilesFromIndexedDB(r)
  \/ \E r \in RunIds : getFilesFromIndexedDBFails(r)
  \/ \E r \in RunIds, outcome \in Outcomes : processOne(r, outcome)
  \/ \E r \in RunIds : updateTransaction(r)
  \/ \E r \in RunIds : clearIndexedDBFiles(r)
  \/ \E r \in RunIds : clearIndexedDBFilesFails(r)
  \/ closeUploadDialog
  \/ closeSuccessDialog

\* ========================================================================
\* Server: routes/uploads.ts, POST /api/uploads/files
\* ========================================================================

UploadReqIds == 1..MaxUploadReqs

\* fileFilter's allowedTypes.
allowedTypes ==
  {"image/jpeg", "image/jpg", "image/png", "application/pdf",
   "application/msword",
   "application/vnd.openxmlformats-officedocument.wordprocessingml.document",
   "application/vnd.ms-excel",
   "application/vnd.openxmlformats-officedocument.spreadsheetml.sheet"}

fileFilter(file) == file.mimetype \in allowedTypes

\* limits.fileSize, in bytes: 50 * 1024 * 1024.
FILE_SIZE_LIMIT == 52428800

\* limits.files, and the maxCount of upload.array('files', 30).
FILES_LIMIT == 30

\* The files a request can carry: 500 bytes, 2KB and 60MB, a PDF or plain
\* text.
FileSizes == {500, 2048, 62914560}

FileTypes == {"application/pdf", "text/plain"}

Files == [size : FileSizes, mimetype : FileTypes]

GoodFile == [size |-> 2048, mimetype |-> "application/pdf"]

\* The batches of a request: none, one or two files of any kind, and as
\* many good files as the limit allows, and one more.
Batches ==
  {<<>>}
    \cup {<<f>> : f \in Files}
    \cup {<<GoodFile, f>> : f \in Files}
    \cup {<<f, GoodFile>> : f \in Files}
    \cup {[i \in 1..n |-> GoodFile] : n \in {FILES_LIMIT, FILES_LIMIT + 1}}

\* The text fields of the multipart body that the handler hands to
\* JSON.parse; customerInfo stands for pricingSnapshot and metadata too.
JsonTexts == {"{}", "{"}

\* JSON.parse(text) returns a value for a JSON text and throws a
\* SyntaxError for any other.
JSONparseThrows(text) == text \notin {"{}", "[]", "null"}

UploadBodies ==
  [files : Batches, customerInfo : {Undefined} \cup {Str(t) : t \in JsonTexts}]

\* multer reads the parts of the body in order.  A part beyond the file
\* limit, a part the filter refuses and a part longer than the size limit
\* each abort the request; the files written to the upload directory up to
\* then are removed again.  `written` counts the files whose content was
\* received and written before the end.
RECURSIVE multerFrom(_, _)
multerFrom(files, i) ==
  IF i > Len(files)
  THEN [err |-> Null, files |-> files, written |-> Len(files)]
  ELSE IF i > FILES_LIMIT
  THEN [err |-> "LIMIT_FILE_COUNT", files |-> <<>>, written |-> i - 1]
  ELSE IF ~fileFilter(files[i])
  THEN [err |-> "Unsupported file type", files |-> <<>>, written |-> i - 1]
  ELSE IF files[i].size > FILE_SIZE_LIMIT
  THEN [err |-> "LIMIT_FILE_SIZE", files |-> <<>>, written |-> i]
  ELSE multerFrom(files, i + 1)

\* upload.array('files', 30)
uploadMiddlewareResult(files) == multerFrom(files, 1)

UploadRefused(msg) ==
  [status |-> 400, success |-> FALSE, error |-> msg, uploadId |-> 0]

UploadAccepted(uploadId) ==
  [status |-> 200, success |-> TRUE, error |-> Null, uploadId |-> uploadId]

\* The records the handler starts from: those of upload-records.json, or
\* none when the file does not exist.  The file only ever holds what
\* JSON.stringify wrote, so the parse of it does not fail.
readRecordsForgetsFile(store) == <<>>

readRecords(store) == store

\* The callback of the middleware.  It has no await: from the read of the
\* record file to the write of it, it runs without another handler in
\* between.  It yields the responses it sends, the record file it leaves,
\* and whether it threw; a throw inside the callback is outside the try
\* block of uploadFiles, which has ended by then.
uploadCallbackResult(parsed, body, uploadId, store) ==
  IF parsed.err # Null
  THEN [responses |->
          <<UploadRefused(
              CASE parsed.err = "LIMIT_FILE_SIZE" ->
                     "File size too large. Maximum size is 50MB per file."
                [] parsed.err = "LIMIT_FILE_COUNT" ->
                     "Too many files. Maximum 30 files allowed."
                [] OTHER -> parsed.err)>>,
        store |-> store, thrown |-> FALSE]
  ELSE IF Len(parsed.files) = 0
  THEN [responses |-> <<UploadRefused("No files provided")>>,
        store |-> store, thrown |-> FALSE]
  ELSE IF ~Not(body.customerInfo) /\ JSONparseThrows(body.customerInfo.chars)
  THEN [responses |-> <<>>, store |-> store, thrown |-> TRUE]
  ELSE [responses |-> <<UploadAccepted(uploadId)>>,
        store |-> Append(readRecords(store),
                         [uploadId |-> uploadId, files |-> parsed.files]),
        thrown |-> FALSE]

UnusedUploadReq ==
  [pc |-> "unused", body |-> None, parsed |-> None, responses |-> <<>>]

UploadsInit ==
  /\ uploadRecords = <<>>
  /\ uploadReqs = [q \in UploadReqIds |-> UnusedUploadReq]

\* A client posts a multipart body to /api/uploads/files; uploadFiles hands
\* the request to the middleware and returns.
postUploadFiles ==
  /\ HasFree(uploadReqs, UploadReqIds)
  /\ \E body \in UploadBodies :
       uploadReqs' = [uploadReqs EXCEPT ![NextFree(uploadReqs, UploadReqIds)] =
                        [@ EXCEPT !.pc = "parsing", !.body = body]]
  /\ UNCHANGED <<uploadRecords, routeVars, webhookVars, contextVars, pageVars,
                 pricingVars, stageVars>>

\* The middleware has read the body of request q, while other requests are
\* being read, and schedules the callback.
uploadMiddleware(q) ==
  /\ uploadReqs[q].pc = "parsing"
  /\ uploadReqs' = [uploadReqs EXCEPT
                      ![q].pc = "called",
                      ![q].parsed = uploadMiddlewareResult(uploadReqs[q].body.files)]
  /\ UNCHANGED <<uploadRecords, routeVars, webhookVars, contextVars, pageVars,
                 pricingVars, stageVars>>

\* The callback of request q runs.
uploadCallback(q) ==
  /\ uploadReqs[q].pc = "called"
  /\ LET result == uploadCallbackResult(uploadReqs[q].parsed, uploadReqs[q].body,
                                        q, uploadRecords) IN
       /\ uploadReqs' = [uploadReqs EXCEPT
                           ![q].pc = IF result.thrown THEN "thrown" ELSE "returned",
                           ![q].responses = result.responses]
       /\ uploadRecords' = result.store
  /\ UNCHANGED <<routeVars, webhookVars, contextVars, pageVars, pricingVars, stageVars>>

UploadsNext ==
  \/ postUploadFiles
  \/ \E q \in UploadReqIds : uploadMiddleware(q)
  \/ \E q \in UploadReqIds : uploadCallback(q)

\* ========================================================================
\* Client: pages/Payment.tsx, the payment page that uploads through
\* POST /api/uploads/files, and the handler of that route
\* ========================================================================

\* handlePayNow up to its first await.
handlePayNowDirect ==
  /\ PayButtonReachable
  /\ HasFree(runs, RunIds)
  /\ runs' = [runs EXCEPT ![NextFree(runs, RunIds)].pc = "loadingScript"]
  /\ fatalError' = Null
  /\ UNCHANGED <<page, tempCost, totalAmount, ctxFiles, idbFiles, showUploadDialog,
                 showSuccessDialog, uploadProgress, charges, uploadVars,
                 outsideDirect>>

\* loadRazorpayScript resolves: the upload dialog is shown and IndexedDB is
\* read.  The steps between the two (order, checkout, verification) are
\* commented out in the source.
loadRazorpayScript(r) ==
  /\ runs[r].pc = "loadingScript"
  /\ runs' = [runs EXCEPT ![r].pc = "fetching"]
  /\ showUploadDialog' = TRUE
  /\ UNCHANGED <<page, tempCost, totalAmount, ctxFiles, idbFiles, fatalError,
                 showSuccessDialog, uploadProgress, charges, uploadVars,
                 outsideDirect>>

\* getFilesFromIndexedDB resolves: uploadFilesToServer posts the files of
\* the context and the fetched ones in one request.
uploadFilesToServer(r) ==
  /\ runs[r].pc = "fetching"
  /\ runs' = [runs EXCEPT ![r].pc = "uploading",
                          ![r].allFiles = ctxFiles \o idbFiles]
  /\ UNCHANGED <<page, tempCost, totalAmount, ctxFiles, idbFiles, fatalError, showUploadDialog,
                 showSuccessDialog, uploadProgress, charges, uploadVars,
                 outsideDirect>>

\* onUploadProgress: another file's worth of the request body has been sent.
onUploadProgress(r) ==
  /\ runs[r].pc = "uploading"
  /\ runs[r].started < Len(runs[r].allFiles)
  /\ LET percentCompleted ==
           RoundPercent(runs[r].started + 1, Len(runs[r].allFiles))
     IN /\ runs' = [runs EXCEPT ![r].started = @ + 1,
                                ![r].reported = percentCompleted]
        /\ uploadProgress' = percentCompleted
  /\ UNCHANGED <<page, tempCost, totalAmount, ctxFiles, idbFiles, fatalError, showUploadDialog,
                 showSuccessDialog, charges, uploadVars, outsideDirect>>

\* The handler of POST /api/uploads/files answers the request of run r.  The
\* staged files have passed the checks of the upload page, which are those
\* of the multer filter; a request without files is refused, any other is
\* recorded.  The page goes on to clear IndexedDB, or catches the refusal.
uploadFiles(r) ==
  /\ runs[r].pc = "uploading"
  /\ IF Len(runs[r].allFiles) = 0
     THEN /\ Caught(r, "No files provided")
          /\ UNCHANGED uploadRecords
     ELSE /\ uploadRecords' = Append(uploadRecords, runs[r].allFiles)
          /\ runs' = [runs EXCEPT ![r].pc = "clearing"]
          /\ UNCHANGED <<fatalError, showUploadDialog>>
  /\ UNCHANGED <<page, tempCost, totalAmount, ctxFiles, idbFiles, showSuccessDialog,
                 uploadProgress, charges, uploadReqs, outsideDirect>>

\* An await of the run rejects: the script does not load, IndexedDB fails,
\* or the request does not reach the server.
awaitRejects(r) ==
  /\ runs[r].pc \in {"loadingScript", "fetching", "uploading", "clearing"}
  /\ Caught(r, CASE runs[r].pc = "loadingScript" -> "Failed to load Razorpay SDK"
                 [] runs[r].pc = "uploading" -> "Network Error"
                 [] OTHER -> "IndexedDB request failed")
  /\ UNCHANGED <<page, tempCost, totalAmount, ctxFiles, idbFiles, showSuccessDialog,
                 uploadProgress, charges, uploadVars, outsideDirect>>

\* clearIndexedDBFiles resolves: the success dialog replaces the upload
\* dialog.  The files of the context stay.
clearIndexedDBFilesDirect(r) ==
  /\ runs[r].pc = "clearing"
  /\ runs' = [runs EXCEPT ![r].pc = "completed"]
  /\ idbFiles' = <<>>
  /\ showUploadDialog' = FALSE
  /\ showSuccessDialog' = TRUE
  /\ UNCHANGED <<page, tempCost, totalAmount, ctxFiles, fatalError, uploadProgress, charges,
                 uploadVars, outsideDirect>>

DirectNext ==
  \/ handlePayNowDirect
  \/ \E r \in RunIds : loadRazorpayScript(r)
  \/ \E r \in RunIds : uploadFilesToServer(r)
  \/ \E r \in RunIds : onUploadProgress(r)
  \/ \E r \in RunIds : uploadFiles(r)
  \/ \E r \in RunIds : awaitRejects(r)
  \/ \E r \in RunIds : clearIndexedDBFilesDirect(r)
  \/ closeUploadDialog
  \/ closeSuccessDialog

\* ========================================================================
\* Client: pricing.  PricingCalculator, DOCUMENT_TYPES and PRICING_TIERS are
\* imported from @shared/pricing, which is not part of the sources at hand:
\* they are modelled from the specification of the pricing engine.  Amounts
\* are in paise.
\* ========================================================================

\* The catalog: two document types, with the base prices of Rs 500 and
\* Rs 1000.
DocumentTypeIds == {"doc500", "doc1000"}

basePrice(documentTypeId) == IF documentTypeId = "doc500" THEN 50000 ELSE 100000

TierNames == {"Standard", "Express", "Premium"}

\* The multiplier of a tier, in halves: 1.0, 1.5, 2.0.
MultiplierHalves(tier) ==
  CASE tier = "Express" -> 3 [] tier = "Premium" -> 4 [] OTHER -> 2

BULK_DISCOUNT_THRESHOLD == 5

BULK_DISCOUNT_PERCENT == 10

GST_PERCENT == 18

\* n / d rounded half up, for n >= 0.
RoundDiv(n, d) == (2 * n + d) \div (2 * d)

RECURSIVE SumSeq(_)
SumSeq(s) == IF s = <<>> THEN 0 ELSE Head(s) + SumSeq(Tail(s))

\* A tier outside the three is taken for Standard instead of being refused.
ValidItemOfAnyTier(item) ==
  /\ item.documentTypeId \in DocumentTypeIds
  /\ item.quantity > 0

ValidItem(item) ==
  /\ item.documentTypeId \in DocumentTypeIds
  /\ item.tier \in TierNames
  /\ item.quantity > 0

\* PricingCalculator.calculateOrderTotal: the items that cannot be priced
\* are left out; the discount is taken from the subtotal once the quantity
\* reaches the threshold, and the tax is on what remains.
calculateOrderTotalDiscountsAll(items) ==
  LET valid == SelectSeq(items, ValidItem)
      lines == [i \in 1..Len(valid) |->
                  [quantity |-> valid[i].quantity,
                   unitPrice |-> RoundDiv(basePrice(valid[i].documentTypeId)
                                            * MultiplierHalves(valid[i].tier), 2)]]
      subtotal == SumSeq([i \in 1..Len(lines) |->
                            lines[i].unitPrice * lines[i].quantity])
      discount == RoundDiv(subtotal * BULK_DISCOUNT_PERCENT, 100)
      gst == RoundDiv((subtotal - discount) * GST_PERCENT, 100)
  IN [subtotal |-> subtotal, bulkDiscount |-> discount, gstAmount |-> gst,
      totalAmount |-> subtotal - discount + gst, breakdown |-> lines]

calculateOrderTotal(items) ==
  LET valid == SelectSeq(items, ValidItem)
      lines == [i \in 1..Len(valid) |->
                  [quantity |-> valid[i].quantity,
                   unitPrice |-> RoundDiv(basePrice(valid[i].documentTypeId)
                                            * MultiplierHalves(valid[i].tier), 2)]]
      subtotal == SumSeq([i \in 1..Len(lines) |->
                            lines[i].unitPrice * lines[i].quantity])
      quantity == SumSeq([i \in 1..Len(lines) |-> lines[i].quantity])
      discount == IF quantity >= BULK_DISCOUNT_THRESHOLD
                  THEN RoundDiv(subtotal * BULK_DISCOUNT_PERCENT, 100)
                  ELSE 0
      gst == RoundDiv((subtotal - discount) * GST_PERCENT, 100)
  IN [subtotal |-> subtotal, bulkDiscount |-> discount, gstAmount |-> gst,
      totalAmount |-> subtotal - discount + gst, breakdown |-> lines]

\* ---- contexts/PricingContext.tsx ----

\* The kinds of file the documents context can hold: priced files of the
\* three tiers, a file without a document type, one without a tier, one
\* whose upload failed, one of a type and one of a tier the catalog does not
\* know.
DocFileKinds ==
  << [documentTypeId |-> "doc500", tier |-> "Standard", status |-> "completed"],
     [documentTypeId |-> "doc1000", tier |-> "Express", status |-> "completed"],
     [documentTypeId |-> "doc500", tier |-> "Premium", status |-> "completed"],
     [documentTypeId |-> "", tier |-> "Standard", status |-> "completed"],
     [documentTypeId |-> "doc500", tier |-> "", status |-> "completed"],
     [documentTypeId |-> "doc500", tier |-> "Standard", status |-> "error"],
     [documentTypeId |-> "doc9", tier |-> "Standard", status |-> "completed"],
     [documentTypeId |-> "doc500", tier |-> "Gold", status |-> "completed"] >>

\* The lists of files, up to the order of the files in them.
DocFileLists ==
  UNION {{[i \in 1..n |-> DocFileKinds[s[i]]] :
            s \in {t \in [1..n -> 1..Len(DocFileKinds)] :
                     \A i \in 1..(n - 1) : t[i] <= t[i + 1]}} :
         n \in 0..MaxDocs}

emptyCalculation ==
  [subtotal |-> 0, bulkDiscount |-> 0, gstAmount |-> 0, totalAmount |-> 0,
   breakdown |-> <<>>]

initialPricingState ==
  [currentOrder |-> <<>>, calculation |-> emptyCalculation, error |-> Null]

\* file.documentTypeId && file.status === 'completed'
InOrder(file) == file.documentTypeId # "" /\ file.status = "completed"

\* The line items calculateFromFiles and updateOrderFromFiles make of files.
orderItems(files) ==
  LET priced == SelectSeq(files, InOrder) IN
    [i \in 1..Len(priced) |->
       [documentTypeId |-> priced[i].documentTypeId,
        tier |-> IF priced[i].tier = "" THEN "Standard" ELSE priced[i].tier,
        quantity |-> 1]]

\* Files that make no line item are priced at the fallback price of a file.
calculateFromFilesChargesFallback(files) ==
  IF Len(orderItems(files)) = 0
  THEN [emptyCalculation EXCEPT !.subtotal = 10000, !.totalAmount = 10000]
  ELSE calculateOrderTotal(orderItems(files))

calculateFromFiles(files) ==
  IF Len(orderItems(files)) = 0
  THEN emptyCalculation
  ELSE calculateOrderTotal(orderItems(files))

\* ---- pages/Upload.tsx ----

HasDocumentType(file) == file.documentTypeId # ""

calculateCost(files) ==
  LET typed == SelectSeq(files, HasDocumentType)
      items == [i \in 1..Len(typed) |->
                  [documentTypeId |-> typed[i].documentTypeId,
                   tier |-> typed[i].tier, quantity |-> 1]]
  IN IF Len(items) = 0 THEN emptyCalculation ELSE calculateOrderTotal(items)

\* ---- the amounts of the payment pages ----

\* const unitPrice = 100, the fallback price of a file in rupees.
unitPrice == 100

\* documentsActions.getValidFiles()
getValidFiles(files) == SelectSeq(files, InOrder)

\* computeFilePriceINR: Math.round(base * tierMultiplier(tier)) rupees, or
\* the fallback price for a type the catalog does not have.
computeFilePriceINR(file, fallbackUnitPrice) ==
  IF file.documentTypeId \notin DocumentTypeIds
  THEN fallbackUnitPrice * 100
  ELSE 100 * RoundDiv(basePrice(file.documentTypeId) * MultiplierHalves(file.tier),
                      200)

\* items: the current order if there is one, the valid files otherwise.
pageItemPrices(state, files) ==
  LET items == IF Len(state.currentOrder) > 0
               THEN state.currentOrder
               ELSE getValidFiles(files)
  IN [i \in 1..Len(items) |-> computeFilePriceINR(items[i], unitPrice)]

\* Math.round(subtotal * taxRate), in whole rupees.
computedGst(subtotal) == 100 * RoundDiv(subtotal * 18, 10000)

\* part_004: each amount of the calculation is used if it is positive, the
\* amount computed from the items otherwise.
presignedAmountsAddsTaxToSubtotal(state, files) ==
  LET calc == state.calculation
      subtotal == IF calc.subtotal > 0 THEN calc.subtotal
                  ELSE SumSeq(pageItemPrices(state, files))
      gst == IF calc.gstAmount > 0 THEN calc.gstAmount ELSE computedGst(subtotal)
  IN [subtotal |-> subtotal, gstAmount |-> gst, totalAmount |-> subtotal + gst]

presignedAmounts(state, files) ==
  LET calc == state.calculation
      subtotal == IF calc.subtotal > 0 THEN calc.subtotal
                  ELSE SumSeq(pageItemPrices(state, files))
      gst == IF calc.gstAmount > 0 THEN calc.gstAmount ELSE computedGst(subtotal)
  IN [subtotal |-> subtotal, gstAmount |-> gst,
      totalAmount |-> IF calc.totalAmount > 0 THEN calc.totalAmount
                      ELSE subtotal + gst]

\* pages/Payment.tsx: the subtotal and the total of the calculation, which
\* are numbers in every PricingState, and its tax unless that is 0.
directAmounts(state, files) ==
  LET calc == state.calculation IN
    [subtotal |-> calc.subtotal,
     gstAmount |-> IF calc.gstAmount # 0 THEN calc.gstAmount
                   ELSE computedGst(calc.subtotal),
     totalAmount |-> calc.totalAmount]

PricingIdle ==
  /\ docFiles = <<>>
  /\ pricingState = initialPricingState
  /\ costPopup = None
  /\ pricingCall = None

\* The documents context holds the files the user has staged.
PricingInit ==
  /\ docFiles \in DocFileLists
  /\ pricingState = initialPricingState
  /\ costPopup = None
  /\ pricingCall = None

\* updateOrderFromFiles(files), with calculateFromFiles in it.
updateOrderFromFiles ==
  /\ pricingState' = [currentOrder |-> orderItems(docFiles),
                      calculation |-> calculateFromFiles(docFiles),
                      error |-> Null]
  /\ pricingCall' = [files |-> docFiles, result |-> calculateFromFiles(docFiles)]
  /\ UNCHANGED <<docFiles, costPopup, routeVars, webhookVars, contextVars,
                 pageVars, uploadVars, stageVars>>

clearOrder ==
  /\ pricingState' = initialPricingState
  /\ UNCHANGED <<docFiles, costPopup, pricingCall, routeVars, webhookVars,
                 contextVars, pageVars, uploadVars, stageVars>>

\* The upload page shows the cost of the files.
showCostPopup ==
  /\ Len(docFiles) > 0
  /\ costPopup' = calculateCost(docFiles)
  /\ UNCHANGED <<docFiles, pricingState, pricingCall, routeVars, webhookVars,
                 contextVars, pageVars, uploadVars, stageVars>>

PricingNext == updateOrderFromFiles \/ clearOrder \/ showCostPopup

\* ---- the payment component that prices the order when it is mounted ----

\* The document and the tier the URL of the page may name.
UrlDocuments == DocumentTypeIds \cup {"doc9"}

UrlTiers == TierNames \cup {"Gold"}

\* The file handleFallbackPaymentInitialization makes of the URL.
fallbackFile(documentId, tier) ==
  [documentTypeId |-> documentId, tier |-> tier, status |-> "completed"]

\* The call of initializePayment both branches end with, made only for a
\* positive total.
initializeIfPositive(items, calculation) ==
  IF calculation.totalAmount > 0
  THEN initializePaymentFrom(items, calculation.totalAmount,
                             calculation.totalAmount)
  ELSE UNCHANGED contextVars

\* initializePaymentFlow with valid files: updateOrderFromFiles(validFiles),
\* calculateFromFiles(validFiles) and initializePayment.
initializePaymentFlow ==
  /\ paymentState.currentPayment = None
  /\ Len(getValidFiles(docFiles)) > 0
  /\ LET validFiles == getValidFiles(docFiles)
         calculation == calculateFromFiles(validFiles)
     IN /\ pricingState' = [currentOrder |-> orderItems(validFiles),
                            calculation |-> calculation, error |-> Null]
        /\ pricingCall' = [files |-> validFiles, result |-> calculation]
        /\ initializeIfPositive(Len(validFiles), calculation)
  /\ UNCHANGED <<docFiles, costPopup, routeVars, webhookVars, pageVars,
                 uploadVars, stageVars>>

\* initializePaymentFlow without valid files: with temp cost data in local
\* storage nothing is done; otherwise calculateFromFiles prices the one
\* document of the URL, and the order of the context is left as it is.
handleFallbackPaymentInitialization ==
  /\ paymentState.currentPayment = None
  /\ Len(getValidFiles(docFiles)) = 0
  /\ \/ UNCHANGED <<pricingState, pricingCall, contextVars>>
     \/ \E documentId \in UrlDocuments, tier \in UrlTiers :
          LET files == <<fallbackFile(documentId, tier)>>
              calculation == calculateFromFiles(files)
          IN /\ pricingState' = [pricingState EXCEPT !.calculation = calculation,
                                                     !.error = Null]
             /\ pricingCall' = [files |-> files, result |-> calculation]
             /\ initializeIfPositive(1, calculation)
  /\ UNCHANGED <<docFiles, costPopup, routeVars, webhookVars, pageVars,
                 uploadVars, stageVars>>

OrderNext ==
  \/ updateOrderFromFiles
  \/ clearOrder
  \/ showCostPopup
  \/ initializePaymentFlow
  \/ handleFallbackPaymentInitialization
  \/ \E i \in InitCallIds : createOrderSucceeds(i) \/ createOrderFails(i)
  \/ Render

\* ========================================================================
\* Client: the upload page (client/pages/Upload.tsx)
\* ========================================================================

\* The most documents processFiles lets the page stage.
MaxStagedFiles == 30

StageCallIds == 1..MaxStageCalls

\* The types processFiles accepts: those of the server without image/png.
stageAllowedTypes ==
  {"image/jpeg", "image/jpg", "application/pdf", "application/msword",
   "application/vnd.openxmlformats-officedocument.wordprocessingml.document",
   "application/vnd.ms-excel",
   "application/vnd.openxmlformats-officedocument.spreadsheetml.sheet"}

minSize == 1024

maxSize == 50 * 1024 * 1024

\* What the user selects or drops at once: some files of one kind.
Selections == [count : SelectionSizes, file : Files]

UnusedStageCall ==
  [pc |-> "unused", ids |-> {}, documentTypeId |-> "", before |-> ""]

StageIdle ==
  /\ stagedFiles = <<>>
  /\ renderedFiles = <<>>
  /\ fileStore = {}
  /\ stageCalls = [c \in StageCallIds |-> UnusedStageCall]
  /\ issuedFileIds = 0

\* The ids of a list of files.
FileIdsOf(list) == {list[i].id : i \in 1..Len(list)}

\* fileStorage.getStoredFiles: the records of the store, in key order.
RECURSIVE getStoredFiles(_)
getStoredFiles(store) ==
  IF store = {} THEN <<>>
  ELSE LET first == CHOOSE r \in store : \A o \in store : r.id <= o.id
       IN <<first>> \o getStoredFiles(store \ {first})

\* fileStorage.storeFiles: each record is put under its id.
storeFiles(store, records) ==
  {r \in store : r.id \notin {n.id : n \in records}} \cup records

\* fileStorage.deleteFile: the record of the id is deleted.
deleteFile(store, id) == {r \in store : r.id # id}

\* The refusals of processFiles: the count against the files of the render
\* the handler was created in, then the types, then the sizes.
processFilesRefuses(closure, newFiles) ==
  \/ Len(closure) + newFiles.count > MaxStagedFiles
  \/ newFiles.file.mimetype \notin stageAllowedTypes
  \/ newFiles.file.size < minSize
  \/ newFiles.file.size > maxSize

\* The UploadedFile records processFiles makes of a selection.
uploadFilesOf(newFiles, issued) ==
  [i \in 1..newFiles.count |->
     [id |-> issued + i, documentTypeId |-> "", status |-> "pending"]]

\* setFiles(prev => prev.map(...)) of processFiles after storeFiles settled.
markStored(prev, ids, status) ==
  [i \in 1..Len(prev) |->
     IF prev[i].id \in ids THEN [prev[i] EXCEPT !.status = status] ELSE prev[i]]

\* setFiles(prev => prev.map(...)) at the head of updateFileDocumentType.
setDocumentType(prev, id, documentTypeId) ==
  [i \in 1..Len(prev) |->
     IF prev[i].id = id THEN [prev[i] EXCEPT !.documentTypeId = documentTypeId]
     ELSE prev[i]]

\* setFiles(prev => prev.map(...)) of the catch block of
\* updateFileDocumentType: the file is given the type it has in prev.
revertDocumentType(prev, id) ==
  [i \in 1..Len(prev) |->
     IF prev[i].id = id
     THEN [prev[i] EXCEPT !.documentTypeId = prev[i].documentTypeId]
     ELSE prev[i]]

\* The type of file id in a list, or the empty string.
TypeOf(list, id) ==
  IF id \in FileIdsOf(list)
  THEN (CHOOSE f \in {list[i] : i \in 1..Len(list)} : f.id = id).documentTypeId
  ELSE ""

\* The page is mounted while no handler of an earlier mount is under way:
\* files starts empty and restoreFilesFromIndexedDB stages what is stored.
restoreFilesFromIndexedDB ==
  /\ \A c \in StageCallIds : stageCalls[c].pc \in {"unused", "done", "failed"}
  /\ LET storedFiles == getStoredFiles(fileStore)
         restoredFiles ==
           [i \in 1..Len(storedFiles) |->
              [id |-> storedFiles[i].id,
               documentTypeId |-> storedFiles[i].documentTypeId,
               status |-> "completed"]]
     IN /\ stagedFiles' = restoredFiles
        /\ renderedFiles' = restoredFiles
  /\ UNCHANGED <<fileStore, stageCalls, issuedFileIds, outsideStage>>

\* React renders the page with the current files.
RenderUpload ==
  /\ renderedFiles # stagedFiles
  /\ renderedFiles' = stagedFiles
  /\ UNCHANGED <<stagedFiles, fileStore, stageCalls, issuedFileIds, outsideStage>>

\* handleDrop or handleFileSelect hands a selection to processFiles, which
\* runs up to the await of storeFiles.
processFiles ==
  /\ HasFree(stageCalls, StageCallIds)
  /\ \E newFiles \in Selections :
       IF processFilesRefuses(renderedFiles, newFiles)
       THEN UNCHANGED stageVars
       ELSE LET added == uploadFilesOf(newFiles, issuedFileIds) IN
              /\ stagedFiles' = stagedFiles \o added
              /\ issuedFileIds' = issuedFileIds + newFiles.count
              /\ stageCalls' =
                   [stageCalls EXCEPT ![NextFree(stageCalls, StageCallIds)] =
                      [@ EXCEPT !.pc = "storing", !.ids = FileIdsOf(added)]]
              /\ UNCHANGED <<renderedFiles, fileStore>>
  /\ UNCHANGED outsideStage

\* storeFiles of call c of processFiles resolves.
storeFilesResolves(c) ==
  /\ stageCalls[c].pc = "storing"
  /\ fileStore' =
       storeFiles(fileStore,
                  {[id |-> i, documentTypeId |-> ""] : i \in stageCalls[c].ids})
  /\ stagedFiles' = markStored(stagedFiles, stageCalls[c].ids, "completed")
  /\ stageCalls' = [stageCalls EXCEPT ![c].pc = "done"]
  /\ UNCHANGED <<renderedFiles, issuedFileIds, outsideStage>>

\* storeFiles of call c of processFiles rejects.
storeFilesRejects(c) ==
  /\ stageCalls[c].pc = "storing"
  /\ stagedFiles' = markStored(stagedFiles, stageCalls[c].ids, "error")
  /\ stageCalls' = [stageCalls EXCEPT ![c].pc = "failed"]
  /\ UNCHANGED <<renderedFiles, fileStore, issuedFileIds, outsideStage>>

\* The files of the rendered list the user acts on: the first and the last.
Shown == IF renderedFiles = <<>> THEN {}
         ELSE {renderedFiles[1].id, renderedFiles[Len(renderedFiles)].id}

\* The user removes a file of the rendered list; removeFile runs up to the
\* await of deleteFile.
removeFile ==
  /\ HasFree(stageCalls, StageCallIds)
  /\ \E id \in Shown :
       /\ stagedFiles' = SelectSeq(stagedFiles, LAMBDA f : f.id # id)
       /\ stageCalls' =
            [stageCalls EXCEPT ![NextFree(stageCalls, StageCallIds)] =
               [@ EXCEPT !.pc = "deleting", !.ids = {id}]]
  /\ UNCHANGED <<renderedFiles, fileStore, issuedFileIds, outsideStage>>

\* deleteFile of call c of removeFile resolves.
deleteFileResolves(c) ==
  /\ stageCalls[c].pc = "deleting"
  /\ \E id \in stageCalls[c].ids : fileStore' = deleteFile(fileStore, id)
  /\ stageCalls' = [stageCalls EXCEPT ![c].pc = "done"]
  /\ UNCHANGED <<stagedFiles, renderedFiles, issuedFileIds, outsideStage>>

\* deleteFile of call c of removeFile rejects: the error is logged.
deleteFileRejects(c) ==
  /\ stageCalls[c].pc = "deleting"
  /\ stageCalls' = [stageCalls EXCEPT ![c].pc = "failed"]
  /\ UNCHANGED <<stagedFiles, renderedFiles, fileStore, issuedFileIds, outsideStage>>

\* The user gives a file of the rendered list a document type;
\* updateFileDocumentType runs up to the await of storeFiles, or returns
\* where the files of its render do not hold the file.
updateFileDocumentType ==
  /\ HasFree(stageCalls, StageCallIds)
  /\ \E id \in Shown, documentTypeId \in DocumentTypeIds :
       /\ stagedFiles' = setDocumentType(stagedFiles, id, documentTypeId)
       /\ stageCalls' =
            [stageCalls EXCEPT ![NextFree(stageCalls, StageCallIds)] =
               [@ EXCEPT !.pc = IF id \in FileIdsOf(renderedFiles)
                                THEN "updating" ELSE "done",
                         !.ids = {id},
                         !.documentTypeId = documentTypeId,
                         !.before = TypeOf(stagedFiles, id)]]
  /\ UNCHANGED <<renderedFiles, fileStore, issuedFileIds, outsideStage>>

\* storeFiles of call c of updateFileDocumentType resolves.
updateStoreResolves(c) ==
  /\ stageCalls[c].pc = "updating"
  /\ fileStore' =
       storeFiles(fileStore,
                  {[id |-> i, documentTypeId |-> stageCalls[c].documentTypeId] :
                     i \in stageCalls[c].ids})
  /\ stageCalls' = [stageCalls EXCEPT ![c].pc = "done"]
  /\ UNCHANGED <<stagedFiles, renderedFiles, issuedFileIds, outsideStage>>

\* storeFiles of call c of updateFileDocumentType rejects: the catch block.
updateStoreRejects(c) ==
  /\ stageCalls[c].pc = "updating"
  /\ \E id \in stageCalls[c].ids :
       stagedFiles' = revertDocumentType(stagedFiles, id)
  /\ stageCalls' = [stageCalls EXCEPT ![c].pc = "failed"]
  /\ UNCHANGED <<renderedFiles, fileStore, issuedFileIds, outsideStage>>

StageNext ==
  \/ restoreFilesFromIndexedDB
  \/ RenderUpload
  \/ processFiles
  \/ \E c \in StageCallIds : storeFilesResolves(c)
  \/ \E c \in StageCallIds : storeFilesRejects(c)
  \/ removeFile
  \/ \E c \in StageCallIds : deleteFileResolves(c)
  \/ \E c \in StageCallIds : deleteFileRejects(c)
  \/ updateFileDocumentType
  \/ \E c \in StageCallIds : updateStoreResolves(c)
  \/ \E c \in StageCallIds : updateStoreRejects(c)

\* ========================================================================
\* Specifications
\* ========================================================================

\* The server and the session with an idle payment page.
Init ==
  /\ RoutesInit
  /\ WebhookInit
  /\ ContextInit
  /\ PageIdle
  /\ UploadsInit
  /\ PricingIdle
  /\ StageIdle

\* The server and the session with a payment page that has files to upload.
InitPage ==
  /\ RoutesInit
  /\ WebhookInit
  /\ ContextInit
  /\ PageInit
  /\ UploadsInit
  /\ PricingIdle
  /\ StageIdle

\* The server and the session with files in the documents context.
InitPricing ==
  /\ RoutesInit
  /\ WebhookInit
  /\ ContextInit
  /\ PageIdle
  /\ UploadsInit
  /\ PricingInit
  /\ StageIdle

SpecRoutes == Init /\ [][RoutesNext]_vars

SpecWebhook == Init /\ [][WebhookNext]_vars

SpecContext == Init /\ [][ContextNext]_vars

\* The presigned payment page is the one mounted.
InitPresigned ==
  /\ InitPage
  /\ page = "presigned"

SpecPresigned == InitPresigned /\ [][PresignedNext]_vars

\* The direct payment page is the one mounted.
InitDirect ==
  /\ InitPage
  /\ page = "direct"

SpecDirect == InitDirect /\ [][DirectNext]_vars

\* Either payment page.
PagesNext ==
  \/ page = "presigned" /\ PresignedNext
  \/ page = "direct" /\ DirectNext

SpecPages == InitPage /\ [][PagesNext]_vars

SpecPricing == InitPricing /\ [][PricingNext]_vars

\* The session when the payment component is mounted.
InitOrder ==
  /\ InitPricing
  /\ Len(docFiles) <= MaxFlowDocs

SpecOrder == InitOrder /\ [][OrderNext]_vars

SpecUploads == Init /\ [][UploadsNext]_vars

\* The upload page is the one the session has open.
SpecStage == Init /\ [][StageNext]_vars

\* ========================================================================
\* Properties
\* ========================================================================

\* The calls of initializePayment whose create-order request is in flight.
PendingInitCalls == {i \in InitCallIds : initCalls[i].pc = "pending"}

\* The attempts that got as far as asking for a checkout popup.
CheckoutAttempts == {a \in AttemptIds : attempts[a].orderId # 0}

\* ------------------------------------------------------------------------
\* C2: a call of initializePayment made while another call's create-order
\* request is pending is rejected, so that never two requests are in flight
\* and the session never holds more than one gateway order.
\* ------------------------------------------------------------------------
C2_SingleInitialization ==
  /\ Cardinality(PendingInitCalls) <= 1
  /\ Len(gatewayOrders) <= 1

\* ------------------------------------------------------------------------
\* C4: once a checkout attempt has received a terminal event of its popup
\* (success, payment.failed, dismissal), a later event of the same popup
\* changes neither the attempt's result nor lastPaymentResult and error.
\* ------------------------------------------------------------------------
C4_FirstTerminalEventWins ==
  [][\A a \in AttemptIds :
       (attempts[a].events # <<>> /\ attempts'[a].events # attempts[a].events)
         => /\ attempts'[a].result = attempts[a].result
            /\ paymentState'.lastPaymentResult = paymentState.lastPaymentResult
            /\ paymentState'.error = paymentState.error]_vars

\* ------------------------------------------------------------------------
\* C5: no terminal event leaves an attempt without a result: an attempt
\* whose popup reported payment.failed has a failed result other than the
\* cancellation, and an attempt whose popup was dismissed first has the
\* cancellation as its result.
\* ------------------------------------------------------------------------
C5_TerminalEventYieldsResult ==
  \A a \in AttemptIds :
    attempts[a].events # <<>> =>
      /\ Head(attempts[a].events) = "failed" =>
           /\ attempts[a].result # None
           /\ ~attempts[a].result.success
           /\ attempts[a].result.error # "Payment cancelled by user"
      /\ Head(attempts[a].events) = "dismiss" =>
           /\ attempts[a].result # None
           /\ attempts[a].result.error = "Payment cancelled by user"

\* The runs of handlePayNow one of whose transfers failed.
FailedUpload(run) == run.failed + run.failedStored > 0

\* The files of a run that the storage or the document register holds.
StoredFiles(run) == run.completed + run.failedStored

\* ------------------------------------------------------------------------
\* C1: the server accepts no file before a payment has succeeded and its
\* signature has been verified: while no payment is verified, no batch is
\* recorded by POST /api/uploads/files and no presigned transfer is started.
\* ------------------------------------------------------------------------
C1_NoTransferBeforeVerifiedPayment ==
  verifiedPayments = {} =>
    /\ uploadRecords = <<>>
    /\ \A r \in RunIds : runs[r].started = 0

\* ------------------------------------------------------------------------
\* C3: a checkout yields a success result only for a payment whose
\* signature the server has verified.
\* ------------------------------------------------------------------------
C3_SuccessOnlyAfterVerification ==
  /\ \A a \in AttemptIds :
       (attempts[a].result # None /\ attempts[a].result.success)
         => a \in verifiedPayments
  /\ \A r \in RunIds :
       runs[r].paymentId # 0 => runs[r].paymentId \in verifiedPayments

\* ------------------------------------------------------------------------
\* C6: for an order whose total amount is not positive no checkout is
\* opened and nothing is charged: the attempt is rejected before it.
\* ------------------------------------------------------------------------
C6_NoCheckoutForEmptyOrder ==
  totalAmount <= 0 =>
    /\ charges = 0
    /\ \A r \in RunIds : runs[r].popup = "none"

\* ------------------------------------------------------------------------
\* C7: a run of handlePayNow one of whose transfers failed is failed and
\* stays failed; the success dialog is shown and the staged files are
\* cleared only by the step that completes a run none of whose transfers
\* failed; and the number of files a run has stored never decreases.
\* ------------------------------------------------------------------------
C7_FailedUploadNeverCompletes ==
  [][/\ \A r \in RunIds :
          FailedUpload(runs[r]) \/ FailedUpload(runs'[r])
            => runs'[r].pc = "failed"
     /\ ( \/ showSuccessDialog' /\ ~showSuccessDialog
          \/ ctxFiles' # ctxFiles
          \/ idbFiles' # idbFiles )
          => \E r \in RunIds : /\ runs[r].pc # "completed"
                               /\ runs'[r].pc = "completed"
                               /\ ~FailedUpload(runs'[r])
     /\ \A r \in RunIds : StoredFiles(runs'[r]) >= StoredFiles(runs[r])]_vars

\* A run has failed on a transfer while files of it are stored; no success
\* dialog is shown and the staged files are still there.
C7_Witness ==
  \E r \in RunIds :
    /\ runs[r].pc = "failed"
    /\ FailedUpload(runs[r])
    /\ StoredFiles(runs[r]) > 0
    /\ ~showSuccessDialog
    /\ ctxFiles # <<>>
    /\ idbFiles # <<>>

\* ------------------------------------------------------------------------
\* C8: once a payment has succeeded and the upload after it has failed, a
\* further click on Pay is a retry of the upload: the new run takes over the
\* payment of the failed run and starts no transaction, script load or
\* checkout of its own.
\* ------------------------------------------------------------------------
C8_RetryOnlyUploads ==
  [][\A r \in RunIds :
       ( /\ runs[r].pc = "unused"
         /\ runs'[r].pc # "unused"
         /\ \E q \in RunIds : /\ runs[q].paymentId # 0
                              /\ runs[q].pc = "failed"
                              /\ FailedUpload(runs[q]) )
         => /\ runs'[r].paymentId # 0
            /\ runs'[r].pc \notin {"creatingTx", "loadingScript", "checkout"}]_vars

\* ------------------------------------------------------------------------
\* C9: a checkout attempt started after an earlier attempt failed or was
\* cancelled has a new PaymentOrder: its gateway order id is the id of no
\* earlier attempt.
\* ------------------------------------------------------------------------
C9_RetryUsesNewOrder ==
  [][\A a \in AttemptIds :
       ( /\ attempts[a].pc = "unused"
         /\ attempts'[a].pc = "loading"
         /\ \E b \in CheckoutAttempts :
              attempts[b].result # None /\ ~attempts[b].result.success )
         => \A b \in CheckoutAttempts :
              attempts'[a].orderId # attempts[b].orderId]_vars

\* ------------------------------------------------------------------------
\* C10: payment verification accepts a payment only when the supplied
\* signature equals the HMAC of "<orderId>|<paymentId>" under the server
\* secret; a request with any other signature, or with an empty paymentId,
\* orderId or signature, is answered with an error and never as verified.
\* ------------------------------------------------------------------------
C10_VerifyOnlyExpectedSignature ==
  verifyRes # None =>
    /\ verifyRes.success =>
         /\ verifyReq.signature =
              expectedSignature(verifyReq.orderId, verifyReq.paymentId)
         /\ verifyReq.paymentId # <<>>
         /\ verifyReq.orderId # <<>>
         /\ verifyReq.signature # <<>>
    /\ verifyRes.success <=> verifyRes.status = 200
    /\ ~verifyRes.success => verifyRes.status = 400 /\ verifyRes.error # Null

\* A request with non-empty ids and a signature that differs from the
\* expected one has been answered with an error.
C10_Witness ==
  /\ verifyRes # None
  /\ verifyReq.paymentId # <<>>
  /\ verifyReq.orderId # <<>>
  /\ verifyReq.signature # <<>>
  /\ verifyReq.signature # expectedSignature(verifyReq.orderId, verifyReq.paymentId)
  /\ ~verifyRes.success

\* The amount of a create-order request is a positive integer of paise.
PositiveInteger(v) == v.t = "number" /\ v.halves > 0 /\ v.halves % 2 = 0

\* ------------------------------------------------------------------------
\* C11 (as stated): create-order is refused, and no order is issued, when
\* the amount is not a positive integer or the currency is not INR; every
\* other request is answered with a new order of the requested amount and
\* currency.
\* ------------------------------------------------------------------------
C11_CreateOrderValidates ==
  createRes # None =>
    IF PositiveInteger(createReq.amount) /\ createReq.currency = Str("INR")
    THEN /\ createRes.success
         /\ createRes.order.amount = createReq.amount
         /\ createRes.order.currency = createReq.currency
    ELSE /\ ~createRes.success
         /\ createRes.status = 400

\* ------------------------------------------------------------------------
\* C11 (amended): create-order is refused with status 400, and no order is
\* issued, when the amount is not a positive integer, the currency is not
\* INR or the receipt is missing or empty; every other request is answered
\* with a new order, of the requested amount and currency, that is the only
\* order the request adds.
\* ------------------------------------------------------------------------
C11_CreateOrderValidatesWithReceipt ==
  createRes # None =>
    IF /\ PositiveInteger(createReq.amount)
       /\ createReq.currency = Str("INR")
       /\ ~Not(createReq.receipt)
    THEN /\ createRes.success
         /\ createRes.status = 200
         /\ createRes.order.amount = createReq.amount
         /\ createRes.order.currency = createReq.currency
         /\ orders # <<>>
         /\ orders[Len(orders)] = createRes.order
         /\ \A k \in 1..(Len(orders) - 1) : orders[k].id # createRes.order.id
    ELSE /\ ~createRes.success
         /\ createRes.status = 400
         /\ createRes.order = None
         /\ \A k \in 1..Len(orders) : /\ PositiveInteger(orders[k].amount)
                                      /\ orders[k].currency = Str("INR")

\* A request with a valid amount and currency but without a receipt has been
\* refused, after an order had been issued for a complete request.
C11_Witness ==
  /\ createRes # None
  /\ PositiveInteger(createReq.amount)
  /\ createReq.currency = Str("INR")
  /\ Not(createReq.receipt)
  /\ ~createRes.success
  /\ Len(orders) = 1

\* The handler of request q has been called back by the middleware.
UploadParsed(q) == uploadReqs[q].pc \in {"called", "returned", "thrown"}

\* The record store holds a record of request q.
Recorded(q) == \E k \in 1..Len(uploadRecords) : uploadRecords[k].uploadId = q

\* ------------------------------------------------------------------------
\* C12: a batch of more than 30 files, or with a file under 1KB or over
\* 50MB, or with a file of a type outside the allowed set, is refused
\* before any of its files is transferred: no file of it reaches the server
\* and no record of it is written.
\* ------------------------------------------------------------------------
C12_InvalidBatchRejectedBeforeTransfer ==
  \A q \in UploadReqIds :
    LET files == uploadReqs[q].body.files IN
      /\ UploadParsed(q)
      /\ \/ Len(files) > 30
         \/ \E i \in 1..Len(files) :
              \/ files[i].size < 1024
              \/ files[i].size > 50 * 1024 * 1024
              \/ files[i].mimetype \notin allowedTypes
      => /\ uploadReqs[q].parsed.written = 0
         /\ ~Recorded(q)

\* Request q has been answered with success.
AnsweredWithSuccess(q) ==
  /\ uploadReqs[q].responses # <<>>
  /\ uploadReqs[q].responses[1].success

Settlements(run) == run.completed + run.failed + run.failedStored

\* ------------------------------------------------------------------------
\* C14: while a run of the presigned page uploads, never more than 3 of its
\* per-file transfers (processOne) are in flight, however many files there
\* are and in whatever order the transfers settle.
\* ------------------------------------------------------------------------
C14_AtMostThreeTransfers ==
  \A r \in RunIds :
    /\ runs[r].running <= 3
    /\ runs[r].running = runs[r].started - Settlements(runs[r])

\* A run has three transfers in flight and a file waiting for a place in
\* the pool, after an earlier transfer of it has settled.
C14_Witness ==
  \E r \in RunIds :
    /\ runs[r].running = 3
    /\ runs[r].started < Len(runs[r].allFiles)
    /\ runs[r].pc = "race"

\* ------------------------------------------------------------------------
\* C15: within one upload, each value handed to the progress callback lies
\* between 0 and 100 and is not below the value handed to it before, in
\* whatever order the files complete.  `reported` is the last value a run
\* has handed to the callback, -1 before the first.
\* ------------------------------------------------------------------------
C15_ProgressNeverDecreases ==
  [][\A r \in RunIds :
       runs'[r].reported # runs[r].reported =>
         /\ runs'[r].reported \in 0..100
         /\ runs'[r].reported >= runs[r].reported]_vars

\* An upload of three or more files has reported progress twice and is not
\* yet at 100.
C15_Witness ==
  \E r \in RunIds :
    /\ Len(runs[r].allFiles) >= 3
    /\ runs[r].reported \in 1..99
    /\ runs[r].reported = RoundPercent(2, Len(runs[r].allFiles))

\* ------------------------------------------------------------------------
\* C16: a validly signed webhook event that is delivered again leaves the
\* paid records of the server as one delivery of it leaves them, and no
\* payment has two paid records.
\* ------------------------------------------------------------------------
C16_WebhookIdempotent ==
  /\ \A i, j \in 1..Len(paidRecords) :
       paidRecords[i] = paidRecords[j] => i = j
  /\ /\ delivered # <<>>
     /\ \A k \in 1..Len(delivered) : delivered[k] = delivered[1]
     => paidRecords = webhookRecords(delivered[1], <<>>)

\* The event payment.captured of one payment has been accepted twice.
C16_Witness ==
  /\ Len(delivered) >= 2
  /\ delivered[1] = delivered[2]
  /\ delivered[1].event = "payment.captured"
  /\ delivered[1].payment # 0
  /\ webhookRes # None
  /\ webhookRes.success

\* ------------------------------------------------------------------------
\* C17: every request to the upload route, malformed ones included, is
\* answered exactly once, and an answer that is not a success has a status
\* from 400 to 599, success false and an error message.
\* ------------------------------------------------------------------------
C17_OneResponseUniformErrors ==
  \A q \in UploadReqIds :
    uploadReqs[q].pc \in {"returned", "thrown"} =>
      /\ Len(uploadReqs[q].responses) = 1
      /\ LET res == uploadReqs[q].responses[1] IN
           ~res.success => /\ res.status \in 400..599
                           /\ res.error # Null

\* A breakdown whose total is its subtotal less the discount plus the tax,
\* the tax being 18% of the subtotal less the discount.
PriceIdentity(b, discount) ==
  /\ b.totalAmount = b.subtotal - discount + b.gstAmount
  /\ 100 * b.gstAmount = 18 * (b.subtotal - discount)

PricedQuantity(c) ==
  SumSeq([i \in 1..Len(c.breakdown) |-> c.breakdown[i].quantity])

\* ------------------------------------------------------------------------
\* C19: the bulk discount of a calculation is not 0 exactly when the line
\* items it prices number 5 or more; it is then 10% of the subtotal, and 0
\* below 5.
\* ------------------------------------------------------------------------
C19_BulkDiscountFromFiveItems ==
  \A c \in {pricingState.calculation} \cup
             (IF costPopup = None THEN {} ELSE {costPopup}) :
    /\ c.bulkDiscount # 0 <=> PricedQuantity(c) >= 5
    /\ PricedQuantity(c) >= 5 => 10 * c.bulkDiscount = c.subtotal
    /\ PricedQuantity(c) < 5 => c.bulkDiscount = 0

\* Five files have been priced with a discount, in the pricing context and
\* in the cost popup.
C19_Witness ==
  /\ costPopup # None
  /\ PricedQuantity(costPopup) = 5
  /\ costPopup.bulkDiscount > 0
  /\ PricedQuantity(pricingState.calculation) = 5
  /\ pricingState.calculation.bulkDiscount > 0

\* The file makes a line item of a document type and a tier of the catalog;
\* a file without a tier is ordered at the Standard tier.
KnownFile(file) ==
  /\ file.documentTypeId \in {"doc500", "doc1000"}
  /\ file.tier \in {"", "Standard", "Express", "Premium"}

C21_NoItemsPriceZero ==
  /\ (pricingCall # None /\ SelectSeq(pricingCall.files, InOrder) = <<>>) =>
       /\ pricingCall.result = emptyCalculation
       /\ pricingState.calculation = emptyCalculation
       /\ pricingState.error = Null
  /\ (costPopup # None /\ SelectSeq(docFiles, HasDocumentType) = <<>>) =>
       costPopup = emptyCalculation

\* Staged files none of which can be priced have been priced by the
\* context, and the upload page has shown their cost.
C21_Witness ==
  /\ pricingCall # None
  /\ Len(pricingCall.files) > 0
  /\ SelectSeq(pricingCall.files, InOrder) = <<>>
  /\ pricingState.calculation = emptyCalculation
  /\ costPopup = emptyCalculation

\* ------------------------------------------------------------------------
\* C22: when a run of handlePayNow has completed, the client holds no
\* transient state of the session any more: the IndexedDB store and the
\* documents context hold no staged file (and with the files no type or
\* tier selection), the saved cost breakdown is gone from local storage and
\* the pricing context is back at its initial state.
\* ------------------------------------------------------------------------
C22_CompletedClearsTransientState ==
  \A r \in RunIds :
    runs[r].pc = "completed" =>
      /\ idbFiles = <<>>
      /\ ctxFiles = <<>>
      /\ ~tempCost
      /\ pricingState = initialPricingState

\* The attempt is under way: processRazorpayPayment has set isProcessing
\* and has not returned or thrown.
UnderWay(attempt) == attempt.pc \in {"loading", "open", "verifying"}

\* The attempt has ended without a payment: it returned a result that is
\* not a success, or its promise was rejected.
EndedWithoutPayment(attempt) ==
  \/ attempt.pc = "threw"
  \/ attempt.pc = "returned" /\ ~attempt.result.success

\* ------------------------------------------------------------------------
\* C23: a step in which a payment attempt ends in a failure or in a
\* cancellation, or in which a call of initializePayment fails, sets an
\* error message in the payment context and changes neither the staged
\* files (documents context, IndexedDB store) nor the computed price (the
\* pricing context, the payment the context holds).
\* ------------------------------------------------------------------------
C23_FailureKeepsFilesAndPriceWithMessage ==
  [][((\E a \in AttemptIds :
          UnderWay(attempts[a]) /\ EndedWithoutPayment(attempts'[a]))
      \/ (\E i \in InitCallIds :
            initCalls[i].pc = "pending" /\ initCalls'[i].pc = "failed"))
       => /\ paymentState'.error # Null
          /\ paymentState'.currentPayment = paymentState.currentPayment
          /\ UNCHANGED <<ctxFiles, idbFiles, docFiles, pricingState,
                         totalAmount>>]_vars

\* ------------------------------------------------------------------------
\* C24: the popup is dismissed only while the attempt awaits the payment;
\* the dismissal ends the attempt with the cancellation as its result, and
\* it is not recorded as an error: the error of the payment context is
\* after the dismissal what it was before.
\* ------------------------------------------------------------------------
C24_CancellationIsNoError ==
  [][\A a \in AttemptIds :
       (attempts'[a].events # attempts[a].events
        /\ attempts'[a].events[Len(attempts'[a].events)] = "dismiss")
         => /\ attempts[a].pc = "open"
            /\ attempts'[a].pc = "returned"
            /\ attempts'[a].result = ErrorResult("Payment cancelled by user")
            /\ paymentState'.error = paymentState.error]_vars

\* ------------------------------------------------------------------------
\* C28: a step in which an invocation of initializePayment or of
\* processRazorpayPayment that has set isProcessing terminates, with a
\* result or with an exception, leaves isProcessing false.
\* ------------------------------------------------------------------------
C28_TerminationClearsProcessing ==
  [][((\E a \in AttemptIds :
          UnderWay(attempts[a]) /\ ~UnderWay(attempts'[a]))
      \/ (\E i \in InitCallIds :
            /\ initCalls[i].pc \in {"unused", "pending"}
            /\ initCalls'[i].pc \in {"created", "failed", "invalid"}))
       => ~paymentState'.isProcessing]_vars

\* The runs of handlePayNow that have started and have neither completed
\* nor ended in the catch block.
RunsInProgress ==
  {r \in RunIds : runs[r].pc \notin {"unused", "failed", "completed"}}

\* ------------------------------------------------------------------------
\* C27: at most one run of handlePayNow is in progress on the payment
\* page: while one is, a click on Pay starts no second run, so that two
\* runs never have a checkout or an upload under way at the same time.
\* ------------------------------------------------------------------------
C27_OneFlowAtATime == Cardinality(RunsInProgress) <= 1

\* ------------------------------------------------------------------------
\* C29: the list of files a run of handlePayNow sends holds no file twice,
\* also when a file is both in the documents context and in the IndexedDB
\* store.
\* ------------------------------------------------------------------------
C29_EachFileSentOnce ==
  \A r \in RunIds :
    \A i, j \in 1..Len(runs[r].allFiles) :
      runs[r].allFiles[i] = runs[r].allFiles[j] => i = j

\* ------------------------------------------------------------------------
\* C26: the calculation of the pricing context is the one the pricing
\* engine yields for the line items of its current order, the zero
\* calculation for an empty order; so a calculation that is not zero never
\* goes with an empty order.
\* ------------------------------------------------------------------------
C26_CalculationDerivedFromOrder ==
  /\ pricingState.calculation =
       (IF pricingState.currentOrder = <<>>
        THEN emptyCalculation
        ELSE calculateOrderTotal(pricingState.currentOrder))
  /\ pricingState.currentOrder = <<>> =>
       pricingState.calculation.totalAmount = 0

\* C30: after any additions and removals on the upload page, two selections
\* handled before a render among them, at most 30 files are staged.
C30_AtMostThirtyStaged == Len(stagedFiles) <= MaxStagedFiles

\* The updates of the document type of file id that wait for the store.
UpdatesUnderWay(id) ==
  {c \in StageCallIds : stageCalls[c].pc = "updating" /\ id \in stageCalls[c].ids}

\* C25: when the store refuses the changed document type of a staged file,
\* the only change of that file under way, the page gives the file the type
\* it had before the change.
C25_FailedPersistRestoresType ==
  [][\A c \in StageCallIds : \A id \in stageCalls[c].ids :
       (/\ stageCalls[c].pc = "updating"
        /\ stageCalls'[c].pc = "failed"
        /\ UpdatesUnderWay(id) = {c}
        /\ id \in FileIdsOf(stagedFiles')) =>
         TypeOf(stagedFiles', id) = stageCalls[c].before]_vars

====
